---- MODULE Spec2Model ----
(***************************************************************************)
(* PomodoroFlow-Rs: the concurrent state-synchronisation core.             *)
(*                                                                         *)
(*   - the timer state machine          (core/pomodoro.rs)                 *)
(*   - the shared state container       (core/state/app_state.rs)          *)
(*   - the state updater / tick loop    (core/state_updater.rs)            *)
(*   - the application commands         (lib.rs)                           *)
(*   - the persistent store             (storage/database.rs)              *)
(*   - the task manager                 (async_utils/task_manager.rs)      *)
(*                                                                         *)
(* The specifications share the variables: SpecSession drives one timer    *)
(* session, SpecContainer calls the container directly, SpecState runs the *)
(* application (commands, store, container, the update loop), SpecUpdater  *)
(* starts and stops the updater, SpecTasks runs the task manager.          *)
(***************************************************************************)
EXTENDS Integers, Sequences, FiniteSets, TLC

VARIABLES
    \* ---- timer session (SpecSession)
    session,        \* PomodoroSession
    lastOp,         \* the last session operation and its result
    driven,         \* TRUE once an operation other than start()/tick() was used
    workDone,       \* number of Work phases completed by tick()
    elapsed,        \* running ticks since remaining was last set to duration
    \* ---- shared state container (SpecContainer, SpecState, SpecUpdater)
    state,          \* AppState behind the RwLock
    rw,             \* the RwLock: its writer and its readers
    chan,           \* event channel: receiver "held" by the manager, "taken", "closed"
    lastEvent,      \* the event published last
    call,           \* per caller: the container method it is executing
    obs,            \* per reader: the read accessor it is executing and what it saw
    stable,         \* AppState as of the last release of the write lock
    calls,          \* calls made by the clients and the commands so far
    \* ---- store, commands and updater (SpecState, SpecUpdater)
    db,             \* the todos table and the number of rows ever inserted
    dbmutex,        \* the holder of the Mutex around the store's connection
    cmd,            \* the application command being executed
    updater,        \* StateUpdater: is_running, shutdown_tx, its timer service
    loop,           \* per update loop: where it stands in its cycle
    ceased,         \* TRUE once no further command will be issued
    converged,      \* TRUE once a cycle begun after that has replaced the todos
    \* ---- task manager (SpecTasks)
    tasks,          \* the registry: name -> handle and metadata
    handles,        \* the tasks spawned so far, in the order of their spawn
    mutex,          \* the holder of the registry's Mutex
    caller,         \* per caller: the task manager method it is executing
    \* ---- helpers of the task manager, queries, event receiver
    retry,          \* the body spawned by spawn_with_retry
    limit,          \* the semaphore of spawn_with_limit and the bodies under it
    query,          \* the query channel: the queries queued and, per client, what it awaits
    recv,           \* the stored event receiver, its Mutex and the callers of create_event_receiver
    stored,         \* the user_config row of the store
    checked,        \* a configuration handed to validate() and the result, once it has returned
    ticker,         \* the pomodoro-tick task: where it stands and its own clone of the timer service
    returned        \* the timer command that returned last, or Err if it failed

sessVars == <<session, lastOp, driven, workDone, elapsed>>
contVars == <<state, rw, chan, lastEvent, call, obs, stable, calls>>
updVars == <<db, dbmutex, cmd, updater, loop, ceased, converged>>
taskVars == <<tasks, handles, mutex, caller>>
auxVars == <<retry, limit, query, recv, stored, checked, ticker, returned>>
vars == <<sessVars, contVars, updVars, taskVars, auxVars>>
notSession == <<contVars, updVars, taskVars, auxVars>>
notContainer == <<sessVars, updVars, taskVars, auxVars>>
notState == <<sessVars, taskVars, auxVars>>
notTasks == <<sessVars, contVars, updVars, auxVars>>
notRetry == <<sessVars, contVars, updVars, limit, query, recv, stored, checked, ticker, returned>>
notLimit == <<sessVars, contVars, updVars, retry, query, recv, stored, checked, ticker, returned>>
notQuery == <<sessVars, contVars, updVars, taskVars, retry, limit, recv, stored, checked, ticker, returned>>
notRecv == <<sessVars, updVars, taskVars, retry, limit, query, stored, checked, ticker, returned>>
notTimer == <<lastOp, driven, workDone, elapsed, db, dbmutex, updater, loop, ceased, converged,
              mutex, caller, retry, limit, query, recv, stored, checked>>

\* ------------------------------------------------------------------------
\* Bounds of the model
\* ------------------------------------------------------------------------
MaxCycleCount == 5
MaxTodos == 2
MaxCalls == 3
MaxLoops == 2
MaxSpawns == 3
MaxRetries == 34
MaxPermits == 2
MaxWaited == 2
MaxAttempts == 2

\* ========================================================================
\* Timer state machine (core/pomodoro.rs)
\* ========================================================================

PomodoroPhase == {"Work", "ShortBreak", "LongBreak"}

PomodoroConfig(w, s, l, c) ==
    [work_duration |-> w, short_break_duration |-> s,
     long_break_duration |-> l, cycles_until_long_break |-> c]

\* PomodoroConfig::default
DefaultConfig == PomodoroConfig(1500, 300, 900, 4)

\* PomodoroPhase::next
phase_next(phase, cycle_count, cycles_until_long_break) ==
    IF phase = "Work"
    THEN IF (cycle_count + 1) % cycles_until_long_break = 0
         THEN "LongBreak"
         ELSE "ShortBreak"
    ELSE "Work"

\* PomodoroConfig::get_duration
get_duration(config, phase) ==
    CASE phase = "Work"       -> config.work_duration
      [] phase = "ShortBreak" -> config.short_break_duration
      [] phase = "LongBreak"  -> config.long_break_duration

\* A validate with the windows of the user configuration: a work time of at
\* most an hour, a long break of at least a minute, at least one cycle.
validate_as_user(config) ==
    /\ config.work_duration >= 60
    /\ config.work_duration <= 3600
    /\ config.short_break_duration >= 60
    /\ config.short_break_duration <= 1800
    /\ config.long_break_duration >= 60
    /\ config.long_break_duration <= 3600
    /\ config.cycles_until_long_break >= 1
    /\ config.cycles_until_long_break <= 10

\* PomodoroConfig::validate
validate(config) ==
    /\ config.work_duration >= 60
    /\ config.work_duration <= 7200
    /\ config.short_break_duration >= 60
    /\ config.short_break_duration <= 1800
    /\ config.long_break_duration >= 300
    /\ config.long_break_duration <= 3600
    /\ config.cycles_until_long_break >= 2
    /\ config.cycles_until_long_break <= 10

\* PomodoroSession::new
session_new(config) ==
    [phase |-> "Work", duration |-> config.work_duration,
     remaining |-> config.work_duration, is_running |-> FALSE,
     cycle_count |-> 0, config |-> config]

\* PomodoroSession::switch_to_phase
switch_to_phase(s, phase) ==
    [s EXCEPT !.phase = phase,
              !.duration = get_duration(s.config, phase),
              !.remaining = get_duration(s.config, phase),
              !.is_running = FALSE]

\* A complete_phase that counts every phase it completes, breaks included.
complete_phase_all(s) ==
    LET s1 == [s EXCEPT !.is_running = FALSE, !.cycle_count = @ + 1]
    IN switch_to_phase(s1, phase_next(s1.phase, s1.cycle_count,
                                      s1.config.cycles_until_long_break))

\* PomodoroSession::complete_phase
complete_phase(s) ==
    LET s1 == [s EXCEPT !.is_running = FALSE,
                        !.cycle_count = IF s.phase = "Work" THEN @ + 1 ELSE @]
    IN switch_to_phase(s1, phase_next(s1.phase, s1.cycle_count,
                                      s1.config.cycles_until_long_break))

\* A tick() that ends a phase one tick early: on the tick that brings
\* remaining to zero instead of on the tick that finds it at zero.
session_tick_early(s) ==
    IF ~s.is_running
    THEN [s |-> s, ok |-> TRUE, completed |-> FALSE]
    ELSE IF s.remaining > 1
         THEN [s |-> [s EXCEPT !.remaining = @ - 1], ok |-> TRUE, completed |-> FALSE]
         ELSE [s |-> complete_phase(s), ok |-> TRUE, completed |-> TRUE]

\* A tick() that counts down whether or not the session is running.
session_tick_always(s) ==
    IF s.remaining > 0
    THEN [s |-> [s EXCEPT !.remaining = @ - 1], ok |-> TRUE, completed |-> FALSE]
    ELSE [s |-> complete_phase(s), ok |-> TRUE, completed |-> TRUE]

\* PomodoroSession::tick
session_tick(s) ==
    IF ~s.is_running
    THEN [s |-> s, ok |-> TRUE, completed |-> FALSE]
    ELSE IF s.remaining > 0
         THEN [s |-> [s EXCEPT !.remaining = @ - 1], ok |-> TRUE, completed |-> FALSE]
         ELSE [s |-> complete_phase(s), ok |-> TRUE, completed |-> TRUE]

\* A start() that accepts a session already running.
session_start_again(s) ==
    [s |-> [s EXCEPT !.is_running = TRUE], ok |-> TRUE]

\* PomodoroSession::start
session_start(s) ==
    IF s.is_running
    THEN [s |-> s, ok |-> FALSE]
    ELSE [s |-> [s EXCEPT !.is_running = TRUE], ok |-> TRUE]

\* PomodoroSession::pause
session_pause(s) ==
    IF ~s.is_running
    THEN [s |-> s, ok |-> FALSE]
    ELSE [s |-> [s EXCEPT !.is_running = FALSE], ok |-> TRUE]

\* A reset() that takes the time of the phase from the configuration
\* instead of from the session's duration.
session_reset_config(s) ==
    [s |-> [s EXCEPT !.remaining = get_duration(s.config, s.phase), !.is_running = FALSE],
     ok |-> TRUE]

\* A reset() that restores the time and leaves the session running.
session_reset_running(s) ==
    [s |-> [s EXCEPT !.remaining = s.duration], ok |-> TRUE]

\* PomodoroSession::reset
session_reset(s) ==
    [s |-> [s EXCEPT !.remaining = s.duration, !.is_running = FALSE], ok |-> TRUE]

\* PomodoroSession::skip
session_skip(s) ==
    IF s.is_running
    THEN [s |-> s, ok |-> FALSE]
    ELSE [s |-> switch_to_phase(s, phase_next(s.phase, s.cycle_count,
                                              s.config.cycles_until_long_break)),
          ok |-> TRUE]

\* An update_config that installs the configuration before it validates it.
session_update_config_late(s, new_config) ==
    LET s1 == [s EXCEPT !.config = new_config]
    IN [s |-> IF ~s1.is_running /\ validate(new_config)
              THEN [s1 EXCEPT !.duration = get_duration(new_config, s.phase),
                              !.remaining = get_duration(new_config, s.phase)]
              ELSE s1,
        ok |-> validate(new_config)]

\* An update_config that resizes the current phase of a running session too.
session_update_config_resize(s, new_config) ==
    IF ~validate(new_config)
    THEN [s |-> s, ok |-> FALSE]
    ELSE [s |-> [s EXCEPT !.config = new_config,
                          !.duration = get_duration(new_config, s.phase),
                          !.remaining = get_duration(new_config, s.phase)],
          ok |-> TRUE]

\* PomodoroSession::update_config
session_update_config(s, new_config) ==
    IF ~validate(new_config)
    THEN [s |-> s, ok |-> FALSE]
    ELSE LET s1 == [s EXCEPT !.config = new_config]
         IN [s |-> IF ~s1.is_running
                   THEN [s1 EXCEPT !.duration = get_duration(new_config, s.phase),
                                   !.remaining = get_duration(new_config, s.phase)]
                   ELSE s1,
             ok |-> TRUE]

\* ------------------------------------------------------------------------
\* SpecSession: one session driven by its operations
\* ------------------------------------------------------------------------

\* Configurations handed to PomodoroSession::new (which does not validate):
\* the default one scaled down to a few ticks per phase, in both cycle counts
\* the claims use.
NewConfigs ==
    {PomodoroConfig(3, 2, 4, 4), PomodoroConfig(2, 1, 3, 2)}

\* Configurations handed to update_config: valid ones at the lower bounds of
\* validate, and invalid ones with one field outside its window, each field
\* in turn.
UpdateConfigs ==
    {PomodoroConfig(60, 60, 300, 4), PomodoroConfig(61, 60, 300, 2),
     PomodoroConfig(59, 60, 300, 4), PomodoroConfig(60, 60, 300, 11),
     PomodoroConfig(7201, 60, 300, 4), PomodoroConfig(60, 1801, 300, 4),
     PomodoroConfig(60, 60, 299, 4), PomodoroConfig(60, 60, 300, 1)}

\* the AppError a failing operation returns: start, pause and skip return
\* InvalidState, update_config returns the Validation of validate
session_error(op) ==
    IF op = "update_config" THEN "Validation" ELSE "InvalidState"

NoOp == [op |-> "new", ok |-> TRUE, error |-> "none", completed |-> FALSE,
         from |-> "Work", to |-> "Work", nth |-> 0, ticks |-> 0, full |-> 0]

Record(op, r, completed) ==
    [op |-> op, ok |-> r.ok, error |-> IF r.ok THEN "none" ELSE session_error(op),
     completed |-> completed,
     from |-> session.phase, to |-> r.s.phase,
     nth |-> IF completed /\ session.phase = "Work" THEN workDone + 1 ELSE workDone,
     ticks |-> IF op = "tick" /\ session.is_running THEN elapsed + 1 ELSE elapsed,
     full |-> session.duration]

Start ==
    LET r == session_start(session) IN
    /\ session' = r.s
    /\ lastOp' = Record("start", r, FALSE)
    /\ UNCHANGED <<driven, workDone, elapsed>>
    /\ UNCHANGED notSession

Tick ==
    LET r == session_tick(session) IN
    /\ session.cycle_count < MaxCycleCount
    /\ session' = r.s
    /\ lastOp' = Record("tick", r, r.completed)
    /\ workDone' = IF r.completed /\ session.phase = "Work" THEN workDone + 1 ELSE workDone
    /\ elapsed' = IF r.completed THEN 0
                  ELSE IF session.is_running THEN elapsed + 1 ELSE elapsed
    /\ UNCHANGED driven
    /\ UNCHANGED notSession

Pause ==
    LET r == session_pause(session) IN
    /\ session' = r.s
    /\ lastOp' = Record("pause", r, FALSE)
    /\ driven' = TRUE
    /\ UNCHANGED <<workDone, elapsed>>
    /\ UNCHANGED notSession

Reset ==
    LET r == session_reset(session) IN
    /\ session' = r.s
    /\ lastOp' = Record("reset", r, FALSE)
    /\ driven' = TRUE
    /\ elapsed' = 0
    /\ UNCHANGED workDone
    /\ UNCHANGED notSession

Skip ==
    LET r == session_skip(session) IN
    /\ session' = r.s
    /\ lastOp' = Record("skip", r, FALSE)
    /\ driven' = TRUE
    /\ elapsed' = IF r.ok THEN 0 ELSE elapsed
    /\ UNCHANGED workDone
    /\ UNCHANGED notSession

UpdateConfig ==
    \E c \in UpdateConfigs :
        LET r == session_update_config(session, c) IN
        /\ session' = r.s
        /\ lastOp' = Record("update_config", r, FALSE)
        /\ driven' = TRUE
        /\ elapsed' = IF r.ok /\ ~session.is_running THEN 0 ELSE elapsed
        /\ UNCHANGED workDone
        /\ UNCHANGED notSession

SessionNext ==
    \/ Start
    \/ Tick
    \/ Pause
    \/ Reset
    \/ Skip
    \/ UpdateConfig


\* ========================================================================
\* Todo items (core/todo.rs)
\* ========================================================================

TodoStatus == {"Todo", "InProgress", "Done"}

TodoIds == 1..MaxTodos

\* Todo: id and status (title, description and the timestamps play no part)
Todo(id, status) == [id |-> id, status |-> status]

\* Todo::toggle_status
toggle_status(status) ==
    CASE status = "Todo"       -> "InProgress"
      [] status = "InProgress" -> "Done"
      [] status = "Done"       -> "Todo"

CountStatus(todos, status) ==
    Cardinality({i \in 1..Len(todos) : todos[i].status = status})

\* TodoStats::from_todos
from_todos(todos) ==
    [total |-> Len(todos),
     todo |-> CountStatus(todos, "Todo"),
     in_progress |-> CountStatus(todos, "InProgress"),
     done |-> CountStatus(todos, "Done")]

\* Iterator::position / find: index of the first todo with this id, 0 if none
position(todos, id) ==
    IF \E i \in 1..Len(todos) : todos[i].id = id
    THEN CHOOSE i \in 1..Len(todos) :
            /\ todos[i].id = id
            /\ \A j \in 1..(i - 1) : todos[j].id # id
    ELSE 0

\* Vec::remove
remove_at(todos, pos) ==
    SubSeq(todos, 1, pos - 1) \o SubSeq(todos, pos + 1, Len(todos))

\* TodoFilter::apply, for the filters all() and pending(): the todos whose
\* status passes (the order by updated_at is not modelled)
filter_apply(filter, todos) ==
    IF filter = "all"
    THEN todos
    ELSE SelectSeq(todos, LAMBDA t : t.status = "Todo")

\* ========================================================================
\* Shared state container (core/state/app_state.rs)
\* ========================================================================

None == "None"

\* Option<T>: None is the empty sequence, Some(x) the sequence of x
NoneOpt == <<>>
Some(x) == <<x>>


NoProc == <<"none", 0>>
Clients == {<<"client", 1>>}
Readers == {<<"reader", 1>>}
Cmd == <<"cmd", 1>>
LoopIds == {<<"loop", i>> : i \in 1..MaxLoops}
\* the pomodoro-tick task as a caller of the container
Ticker == <<"tick", 1>>
Procs == Clients \cup {Cmd} \cup LoopIds \cup {Ticker}

\* AppState::default
AppState_new ==
    [todos |-> <<>>,
     todo_filter |-> "all",
     todo_stats |-> from_todos(<<>>),
     pomodoro_session |-> NoneOpt,
     pomodoro_config |-> DefaultConfig,
     user_config |-> NoneOpt,
     error_message |-> NoneOpt,
     info_message |-> NoneOpt]

\* The mutating methods of AppStateManager
TaskMethods == {"add_todo", "update_todo", "delete_todo", "toggle_todo_status",
                "bulk_update_todos"}
OtherMethods == {"set_pomodoro_session", "update_pomodoro_config", "set_user_config",
                 "set_error_message", "set_info_message", "clear_messages",
                 "set_todo_filter"}

\* The methods that hand a failed send_event to their caller with `?`; the
\* others discard it with `let _ =`.
propagates_send_error(op) ==
    op \in TaskMethods \cup {"update_pomodoro_config"}

\* A call of a mutating method: the method and its argument, where the call
\* stands, whether it changed the state, the clone it took under the lock for
\* its event, the events it published, and its result.
IdleCall == [op |-> None, arg |-> None, pc |-> "idle", applied |-> FALSE,
             clone |-> None, sent |-> 0, ok |-> TRUE, timed_out |-> FALSE]

NewCall(op, arg) == [IdleCall EXCEPT !.op = op, !.arg = arg, !.pc = "lock"]

\* a bulk update that leaves a collection that is not empty as it is
bulk_keep(old, new) == IF old = <<>> THEN new ELSE old

\* bulk_update_todos: `state.todos = todos;`
bulk_replace(old, new) == new

\* The change a method makes under the write lock, before the statistics are
\* recomputed: [st: the state, applied: whether anything was changed].
mutate(op, arg, st) ==
    LET pos == IF op \in {"update_todo", "delete_todo", "toggle_todo_status"}
               THEN position(st.todos, arg.id) ELSE 0
    IN CASE op = "add_todo" ->
              [st |-> [st EXCEPT !.todos = Append(@, arg)], applied |-> TRUE]
         [] op = "update_todo" ->
              IF pos = 0 THEN [st |-> st, applied |-> FALSE]
              ELSE [st |-> [st EXCEPT !.todos[pos].status =
                                IF arg.status = None THEN @ ELSE arg.status],
                    applied |-> TRUE]
         [] op = "delete_todo" ->
              IF pos = 0 THEN [st |-> st, applied |-> FALSE]
              ELSE [st |-> [st EXCEPT !.todos = remove_at(@, pos)], applied |-> TRUE]
         [] op = "toggle_todo_status" ->
              IF pos = 0 THEN [st |-> st, applied |-> FALSE]
              ELSE [st |-> [st EXCEPT !.todos[pos].status = toggle_status(@)],
                    applied |-> TRUE]
         [] op = "bulk_update_todos" ->
              [st |-> [st EXCEPT !.todos = bulk_replace(@, arg)], applied |-> TRUE]
         [] op = "set_pomodoro_session" ->
              [st |-> [st EXCEPT !.pomodoro_session = Some(arg)], applied |-> TRUE]
         [] op = "update_pomodoro_config" ->
              [st |-> [st EXCEPT !.pomodoro_config = arg], applied |-> TRUE]
         [] op = "set_user_config" ->
              [st |-> [st EXCEPT !.user_config = Some(arg)], applied |-> TRUE]
         [] op = "set_error_message" ->
              [st |-> [st EXCEPT !.error_message = Some(arg)], applied |-> TRUE]
         [] op = "set_info_message" ->
              [st |-> [st EXCEPT !.info_message = Some(arg)], applied |-> TRUE]
         [] op = "clear_messages" ->
              [st |-> [st EXCEPT !.error_message = NoneOpt, !.info_message = NoneOpt],
               applied |-> TRUE]
         [] op = "set_todo_filter" ->
              [st |-> [st EXCEPT !.todo_filter = arg], applied |-> TRUE]

\* `updated_todo = Some(todo.clone())`: what update_todo and
\* toggle_todo_status clone under the write lock, after their change
clone_of(op, arg, st) ==
    IF op \in {"update_todo", "toggle_todo_status"} /\ position(st.todos, arg.id) # 0
    THEN st.todos[position(st.todos, arg.id)]
    ELSE None

\* The AppEvent a method publishes for its change; st is the state when the
\* event is built, which only bulk_update_todos reads.
event_of(op, arg, clone, st) ==
    CASE op = "add_todo" -> [kind |-> "TodoCreated", data |-> arg]
      [] op \in {"update_todo", "toggle_todo_status"} ->
            [kind |-> "TodoUpdated", data |-> clone]
      [] op = "delete_todo" -> [kind |-> "TodoDeleted", data |-> arg.id]
      [] op = "bulk_update_todos" -> [kind |-> "TodoBulkUpdated", data |-> st.todos]
      [] op = "set_pomodoro_session" -> [kind |-> "PomodoroStarted", data |-> None]
      [] op = "update_pomodoro_config" -> [kind |-> "PomodoroConfigUpdated", data |-> arg]
      [] op = "set_user_config" -> [kind |-> "UserConfigUpdated", data |-> arg]
      [] op = "set_error_message" -> [kind |-> "ErrorMessage", data |-> arg]
      [] op = "set_info_message" -> [kind |-> "InfoMessage", data |-> arg]
      [] op = "clear_messages" -> [kind |-> "MessageCleared", data |-> None]
      [] op = "set_todo_filter" -> [kind |-> "FilterChanged", data |-> arg]

\* RwLock::write().await returns: nobody holds the lock
write_lock_free == rw.writer = NoProc /\ rw.readers = {}

\* a read lock that is granted while a writer holds the lock
read_lock_unguarded == TRUE

\* RwLock::read().await returns: no writer holds the lock
read_lock_free == rw.writer = NoProc

\* `let mut state = self.state.write().await;`
CallAcquire(p) ==
    /\ call[p].pc = "lock"
    /\ write_lock_free
    /\ rw' = [rw EXCEPT !.writer = p]
    /\ call' = [call EXCEPT ![p].pc = "mutate"]
    /\ UNCHANGED <<state, chan, lastEvent, obs, stable, calls>>
    /\ UNCHANGED notContainer

\* the method's change to the todos or to a field, under the write lock
CallMutate(p) ==
    /\ call[p].pc = "mutate"
    /\ LET m == mutate(call[p].op, call[p].arg, state) IN
        /\ state' = m.st
        /\ call' = [call EXCEPT ![p].applied = m.applied,
                                ![p].clone = clone_of(call[p].op, call[p].arg, m.st),
                                ![p].pc = IF m.applied /\ call[p].op \in TaskMethods
                                          THEN "stats" ELSE "unlock"]
    /\ UNCHANGED <<rw, chan, lastEvent, obs, stable, calls>>
    /\ UNCHANGED notContainer

\* `state.todo_stats = TodoStats::from_todos(&state.todos);`
CallStats(p) ==
    /\ call[p].pc = "stats"
    /\ state' = [state EXCEPT !.todo_stats = from_todos(state.todos)]
    /\ call' = [call EXCEPT ![p].pc = "unlock"]
    /\ UNCHANGED <<rw, chan, lastEvent, obs, stable, calls>>
    /\ UNCHANGED notContainer

\* the write guard goes out of scope
CallUnlock(p) ==
    /\ call[p].pc = "unlock"
    /\ rw' = [rw EXCEPT !.writer = NoProc]
    /\ stable' = state
    /\ call' = [call EXCEPT ![p].pc = IF call[p].applied THEN "send" ELSE "done"]
    /\ UNCHANGED <<state, chan, lastEvent, obs, calls>>
    /\ UNCHANGED notContainer

\* AppStateManager::send_event and the method's return. bulk_update_todos
\* builds its event from `self.state.read().await.todos.clone()`: it first
\* waits for the read lock.
CallSend(p) ==
    /\ call[p].pc = "send"
    /\ call[p].op = "bulk_update_todos" => read_lock_free
    /\ IF chan # "closed"
       THEN /\ lastEvent' = event_of(call[p].op, call[p].arg, call[p].clone, state)
            /\ call' = [call EXCEPT ![p].sent = @ + 1, ![p].pc = "done"]
       ELSE /\ call' = [call EXCEPT ![p].ok = ~propagates_send_error(call[p].op),
                                    ![p].pc = "done"]
            /\ UNCHANGED lastEvent
    /\ UNCHANGED <<state, rw, chan, obs, stable, calls>>
    /\ UNCHANGED notContainer

CallStep(p) ==
    \/ CallAcquire(p)
    \/ CallMutate(p)
    \/ CallStats(p)
    \/ CallUnlock(p)
    \/ CallSend(p)

\* ---- read accessors -----------------------------------------------------

Accessors == {"get_all_todos", "get_filtered_todos", "get_todo_stats",
              "get_pomodoro_session", "get_user_config"}

\* what an accessor clones out of the state
project(acc, st) ==
    CASE acc = "get_all_todos" -> st.todos
      [] acc = "get_filtered_todos" -> filter_apply(st.todo_filter, st.todos)
      [] acc = "get_todo_stats" -> st.todo_stats
      [] acc = "get_pomodoro_session" -> st.pomodoro_session
      [] acc = "get_user_config" -> st.user_config

\* a writer is inside a mutating method: between its call and its return
WriteInFlight == \E p \in Procs : call[p].pc \notin {"idle", "done"}

\* A call of a read accessor: the accessor, where the call stands, and whether
\* a mutating method was in flight when it read.
IdleObs == [acc |-> None, pc |-> "idle", concurrent |-> FALSE]

\* the accessor is called
ReadBegin(r) ==
    /\ obs[r].pc \in {"idle", "done"}
    /\ \E acc \in Accessors : obs' = [obs EXCEPT ![r] = [IdleObs EXCEPT !.acc = acc,
                                                                     !.pc = "lock"]]
    /\ UNCHANGED <<state, rw, chan, lastEvent, call, stable, calls>>
    /\ UNCHANGED notContainer

\* `self.state.read().await`
ReadAcquire(r) ==
    /\ obs[r].pc = "lock"
    /\ read_lock_free
    /\ rw' = [rw EXCEPT !.readers = @ \cup {r}]
    /\ obs' = [obs EXCEPT ![r].pc = "read"]
    /\ UNCHANGED <<state, chan, lastEvent, call, stable, calls>>
    /\ UNCHANGED notContainer

\* the clone under the read guard, and the guard's release
ReadClone(r) ==
    /\ obs[r].pc = "read"
    /\ obs' = [obs EXCEPT ![r].pc = "done", ![r].concurrent = WriteInFlight]
    /\ rw' = [rw EXCEPT !.readers = @ \ {r}]
    /\ UNCHANGED <<state, chan, lastEvent, call, stable, calls>>
    /\ UNCHANGED notContainer

\* ---- the event receiver --------------------------------------------------

\* AppStateManager::create_event_receiver, when the receiver is still there
CreateEventReceiver ==
    /\ chan = "held"
    /\ chan' = "taken"
    /\ UNCHANGED <<state, rw, lastEvent, call, obs, stable, calls>>
    /\ UNCHANGED notContainer

\* the EventReceiver is dropped: the channel is closed
DropEventReceiver ==
    /\ chan = "taken"
    /\ chan' = "closed"
    /\ UNCHANGED <<state, rw, lastEvent, call, obs, stable, calls>>
    /\ UNCHANGED notContainer

\* ---- clients calling the container directly -----------------------------

TodoArgs == {Todo(i, "Todo") : i \in TodoIds}
UpdateArgs == {[id |-> i, status |-> "Done"] : i \in TodoIds}
IdArgs == {[id |-> i] : i \in TodoIds}
BulkArgs == {<<>>, <<Todo(1, "InProgress")>>}

\* the arguments a client may pass to a method
ArgsOf(op) ==
    CASE op = "add_todo" -> TodoArgs
      [] op = "update_todo" -> UpdateArgs
      [] op \in {"delete_todo", "toggle_todo_status"} -> IdArgs
      [] op = "bulk_update_todos" -> BulkArgs
      [] op = "set_pomodoro_session" -> {session_new(DefaultConfig)}
      [] op = "update_pomodoro_config" -> {PomodoroConfig(60, 60, 300, 2)}
      [] op = "set_user_config" -> {"config"}
      [] op = "set_error_message" -> {"error"}
      [] op = "set_info_message" -> {"info"}
      [] op = "clear_messages" -> {None}
      [] op = "set_todo_filter" -> {"pending"}

\* a client calls a mutating method
ClientInvoke(p) ==
    /\ call[p].pc \in {"idle", "done"}
    /\ calls < MaxCalls
    /\ \E op \in TaskMethods \cup OtherMethods :
         /\ op = "add_todo" => Len(state.todos) < MaxTodos
         /\ \E arg \in ArgsOf(op) : call' = [call EXCEPT ![p] = NewCall(op, arg)]
    /\ calls' = calls + 1
    /\ UNCHANGED <<state, rw, chan, lastEvent, obs, stable>>
    /\ UNCHANGED notContainer

ContainerNext ==
    \/ \E p \in Clients : ClientInvoke(p)
    \/ \E p \in Clients : CallStep(p)
    \/ \E r \in Readers : ReadBegin(r)
    \/ \E r \in Readers : ReadAcquire(r)
    \/ \E r \in Readers : ReadClone(r)
    \/ CreateEventReceiver
    \/ DropEventReceiver

\* ========================================================================
\* Persistent store: the todos table (storage/database.rs)
\* ========================================================================

\* todo_status_to_db_string
todo_status_to_db_string(status) ==
    CASE status = "Todo"       -> "todo"
      [] status = "InProgress" -> "in_progress"
      [] status = "Done"       -> "done"

\* TodoStatus::to_string: the human-readable name (the three Chinese names
\* of the source are written here in pinyin)
to_string(status) ==
    CASE status = "Todo"       -> "daiban"
      [] status = "InProgress" -> "jinxingzhong"
      [] status = "Done"       -> "yiwancheng"

\* the match on status_str that reads a row's status column
status_of_row(str) ==
    CASE str = "todo"        -> "Todo"
      [] str = "in_progress" -> "InProgress"
      [] str = "done"        -> "Done"
      [] OTHER               -> "Todo"

\* Database::init: an empty table
Database_init == [rows |-> <<>>, created |-> 0]

\* index of the row with this id, 0 if there is none
row_of(rows, id) == position(rows, id)

\* Database::get_all_todos: SELECT * FROM todos ORDER BY created_at DESC.
\* rows is in the order of insertion, the result is newest first.
RECURSIVE Database_get_all_todos(_)
Database_get_all_todos(rows) ==
    IF rows = <<>>
    THEN <<>>
    ELSE Append(Database_get_all_todos(Tail(rows)),
                Todo(Head(rows).id, status_of_row(Head(rows).status)))

\* Database::create_todo: a row with a fresh id (uuid v4), the status in its
\* database spelling; the Todo handed back carries the status as given
Database_create_todo(d, status) ==
    [rows |-> Append(d.rows, [id |-> d.created + 1,
                              status |-> todo_status_to_db_string(status)]),
     created |-> d.created + 1]

\* the CHECK constraint on the status column of the todos table
status_check(str) == str \in {"todo", "in_progress", "done"}

\* what Database::update_todo with updates.status = Some(status) returns:
\* "None" (Ok(None)) if there is no row with the id, "Err" if the UPDATE
\* fails on the constraint of the column, "Some" (Ok(Some(todo))) otherwise
Database_update_todo_result(d, id, status) ==
    IF row_of(d.rows, id) = 0
    THEN "None"
    ELSE IF status_check(to_string(status)) THEN "Some" ELSE "Err"

\* Database::update_todo with updates.status = Some(status): the column is
\* set to status.to_string() inside a transaction, which is rolled back
\* when the UPDATE fails
Database_update_todo(d, id, status) ==
    IF Database_update_todo_result(d, id, status) = "Some"
    THEN [d EXCEPT !.rows[row_of(d.rows, id)].status = to_string(status)]
    ELSE d

\* Database::delete_todo
Database_delete_todo(d, id) ==
    IF row_of(d.rows, id) = 0
    THEN d
    ELSE [d EXCEPT !.rows = remove_at(@, row_of(d.rows, id))]

\* ========================================================================
\* Application commands (lib.rs); the application's Mutex lets one run at a
\* time
\* ========================================================================

Commands == {"create_todo", "update_todo", "delete_todo", "toggle_todo_status"}

IdleCmd == [op |-> None, id |-> 0, status |-> None, pc |-> "idle"]

\* ---- the Mutex around the store's connection ------------------------------
\* Every operation of Database runs `conn.lock()` inside the closure it hands
\* to spawn_blocking; the guard is a local of the closure.

\* the closure of an operation whose caller no longer awaits it
Closure == <<"closure", 0>>

\* the guard is kept beyond the closure
db_keep(p) == p

\* the closure returns: its MutexGuard is dropped with it
db_unlock(p) == NoProc

\* the future awaiting the closure of p is dropped (timeout, abort): the
\* closure runs to its end on the blocking pool
db_detach(p) == IF dbmutex = p THEN Closure ELSE dbmutex

\* the closure of the command's store operation takes the Mutex
CmdDbLock ==
    /\ cmd.pc \in {"db", "load"}
    /\ dbmutex = NoProc
    /\ dbmutex' = Cmd
    /\ UNCHANGED contVars
    /\ UNCHANGED <<db, cmd, updater, loop, ceased, converged>>
    /\ UNCHANGED notState

\* the closure of the loop's get_all_todos takes the Mutex
LoopDbLock(l) ==
    /\ loop[l].pc = "reload"
    /\ dbmutex = NoProc
    /\ dbmutex' = l
    /\ UNCHANGED contVars
    /\ UNCHANGED <<db, cmd, updater, loop, ceased, converged>>
    /\ UNCHANGED notState

\* a closure nobody awaits comes to its end
ClosureEnd ==
    /\ dbmutex = Closure
    /\ dbmutex' = db_unlock(Closure)
    /\ UNCHANGED contVars
    /\ UNCHANGED <<db, cmd, updater, loop, ceased, converged>>
    /\ UNCHANGED notState

\* a command is issued. toggle_todo_status starts with the container,
\* the others with the store.
CmdInvoke ==
    /\ cmd.pc = "idle"
    /\ ~ceased
    /\ calls < MaxCalls
    /\ \E op \in Commands :
         IF op = "create_todo"
         THEN /\ db.created < MaxTodos
              /\ cmd' = [IdleCmd EXCEPT !.op = op, !.status = "Todo", !.pc = "db"]
              /\ UNCHANGED call
         ELSE \E id \in TodoIds :
                IF op = "toggle_todo_status"
                THEN /\ cmd' = [IdleCmd EXCEPT !.op = op, !.id = id, !.pc = "state"]
                     /\ call' = [call EXCEPT ![Cmd] = NewCall(op, [id |-> id])]
                ELSE /\ cmd' = [IdleCmd EXCEPT !.op = op, !.id = id,
                                              !.status = "Done", !.pc = "db"]
                     /\ UNCHANGED call
    /\ calls' = calls + 1
    /\ UNCHANGED <<state, rw, chan, lastEvent, obs, stable>>
    /\ UNCHANGED <<db, dbmutex, updater, loop, ceased, converged>>
    /\ UNCHANGED notState

\* the command's store operation returns; create, update and delete go on
\* to the container, update returns NotFound for a missing row and the
\* store's error for a failed write, toggle returns
CmdStore ==
    /\ cmd.pc = "db"
    /\ dbmutex = Cmd
    /\ dbmutex' = db_unlock(Cmd)
    /\ CASE cmd.op = "create_todo" ->
              /\ db' = Database_create_todo(db, cmd.status)
              /\ cmd' = [cmd EXCEPT !.id = db.created + 1, !.pc = "state"]
              /\ call' = [call EXCEPT ![Cmd] =
                             NewCall("add_todo", Todo(db.created + 1, cmd.status))]
         [] cmd.op = "update_todo" ->
              /\ db' = Database_update_todo(db, cmd.id, cmd.status)
              /\ IF Database_update_todo_result(db, cmd.id, cmd.status) # "Some"
                 THEN cmd' = IdleCmd /\ UNCHANGED call
                 ELSE /\ cmd' = [cmd EXCEPT !.pc = "state"]
                      /\ call' = [call EXCEPT ![Cmd] =
                                     NewCall("update_todo",
                                             [id |-> cmd.id, status |-> cmd.status])]
         [] cmd.op = "delete_todo" ->
              /\ db' = Database_delete_todo(db, cmd.id)
              /\ cmd' = [cmd EXCEPT !.pc = "state"]
              /\ call' = [call EXCEPT ![Cmd] = NewCall("delete_todo", [id |-> cmd.id])]
         [] cmd.op = "toggle_todo_status" ->
              /\ db' = Database_update_todo(db, cmd.id, cmd.status)
              /\ cmd' = IdleCmd
              /\ UNCHANGED call
    /\ UNCHANGED <<state, rw, chan, lastEvent, obs, stable, calls>>
    /\ UNCHANGED <<updater, loop, ceased, converged>>
    /\ UNCHANGED notState

\* the command's container method has returned; toggle goes on to read the
\* todos back, the others return
CmdStateDone ==
    /\ cmd.pc = "state"
    /\ call[Cmd].pc = "done"
    /\ call' = [call EXCEPT ![Cmd] = IdleCall]
    /\ cmd' = IF cmd.op = "toggle_todo_status" /\ call[Cmd].ok
              THEN [cmd EXCEPT !.pc = "read"]
              ELSE IdleCmd
    /\ UNCHANGED <<state, rw, chan, lastEvent, obs, stable, calls>>
    /\ UNCHANGED <<db, dbmutex, updater, loop, ceased, converged>>
    /\ UNCHANGED notState

\* toggle_todo_status: `self.state_manager.get_all_todos().await` and the
\* search for the id in the clone; NotFound if it is not there
CmdRead ==
    /\ cmd.pc = "read"
    /\ read_lock_free
    /\ cmd' = IF position(state.todos, cmd.id) = 0
              THEN IdleCmd
              ELSE [cmd EXCEPT !.status = state.todos[position(state.todos, cmd.id)].status,
                               !.pc = "db"]
    /\ UNCHANGED contVars
    /\ UNCHANGED <<db, dbmutex, updater, loop, ceased, converged>>
    /\ UNCHANGED notState

\* the user stops issuing commands
CommandsCease ==
    /\ cmd.pc = "idle"
    /\ ~ceased
    /\ ceased' = TRUE
    /\ UNCHANGED contVars
    /\ UNCHANGED <<db, dbmutex, cmd, updater, loop, converged>>
    /\ UNCHANGED notState

\* ========================================================================
\* State updater and its update loop (core/state_updater.rs)
\* ========================================================================

\* StateUpdater::new: not running, no shutdown sender, its own clone of the
\* timer service behind a lock; last, was_running and result record the
\* last call of start() or stop()
StateUpdater_new ==
    [is_running |-> FALSE, shutdown_tx |-> NoneOpt,
     service |-> session_new(DefaultConfig), service_lock |-> NoProc,
     last |-> "new", was_running |-> FALSE, result |-> None]

\* a loop that is not alive; signalled: the shutdown signal was sent to it,
\* mid: it was inside a cycle when the signal was sent, fresh: its cycle
\* began after the commands ceased, replaced: its cycle replaced the todos,
\* fault: the timeout or store error its cycle met
DeadLoop == [pc |-> "dead", signalled |-> FALSE, mid |-> FALSE,
             fresh |-> FALSE, replaced |-> FALSE, fault |-> "none"]

Alive == {l \in LoopIds : loop[l].pc # "dead"}

\* PomodoroService::tick: the event of one tick of the service's session;
\* payload holds the fields of PhaseCompleted, which are read from the
\* session after session.tick() has returned
service_tick(s) ==
    LET r == session_tick(s) IN
    [s |-> r.s, event |-> IF r.completed THEN "PhaseCompleted" ELSE "Tick",
     payload |-> [completed_phase |-> r.s.phase,
                  next_phase |-> phase_next(r.s.phase, r.s.cycle_count,
                                            r.s.config.cycles_until_long_break),
                  cycle_count |-> r.s.cycle_count]]

\* update_pomodoro_state: the AppEvent sent for the service's event
app_event_of(event) ==
    IF event = "Tick"
    THEN [kind |-> "PomodoroEvent", data |-> event]
    ELSE [kind |-> "PomodoroStarted", data |-> None]

\* a fault that ends the loop
after_fault_fatal(pc) == "dead"

\* `if let Err(_) = timeout(..).await { eprintln!(..) }` and the `if let Ok`
\* of update_database_state: where the cycle goes on after a step that timed
\* out or failed
after_fault(pc) ==
    IF pc = "pomo_lock" THEN "reload" ELSE "settings"

\* StateUpdater::start. The spawned loop takes the first free slot of the
\* model.
UpdaterStart ==
    /\ IF updater.is_running
       THEN /\ updater' = [updater EXCEPT !.last = "start", !.was_running = TRUE,
                                          !.result = "InvalidState"]
            /\ UNCHANGED loop
       ELSE \E l \in LoopIds :
              /\ loop[l].pc = "dead"
              /\ \A k \in LoopIds : k[2] < l[2] => loop[k].pc # "dead"
              /\ updater' = [updater EXCEPT !.is_running = TRUE,
                                            !.shutdown_tx = Some(l),
                                            !.last = "start", !.was_running = FALSE,
                                            !.result = "Ok"]
              /\ loop' = [loop EXCEPT ![l] = [DeadLoop EXCEPT !.pc = "select"]]
    /\ UNCHANGED contVars
    /\ UNCHANGED <<db, dbmutex, cmd, ceased, converged>>
    /\ UNCHANGED notState

\* StateUpdater::stop
UpdaterStop ==
    /\ IF updater.is_running
       THEN /\ updater' = [updater EXCEPT !.is_running = FALSE, !.shutdown_tx = NoneOpt,
                                          !.last = "stop", !.was_running = TRUE,
                                          !.result = None]
            /\ loop' = IF updater.shutdown_tx = NoneOpt
                       THEN loop
                       ELSE [loop EXCEPT
                               ![updater.shutdown_tx[1]].signalled = TRUE,
                               ![updater.shutdown_tx[1]].mid =
                                   loop[updater.shutdown_tx[1]].pc # "select"]
       ELSE /\ updater' = [updater EXCEPT !.last = "stop", !.was_running = FALSE,
                                          !.result = None]
            /\ UNCHANGED loop
    /\ UNCHANGED contVars
    /\ UNCHANGED <<db, dbmutex, cmd, ceased, converged>>
    /\ UNCHANGED notState

\* a loop that ends wherever the signal finds it
LoopAbort(l) ==
    /\ loop[l].pc # "dead"
    /\ loop[l].signalled
    /\ loop' = [loop EXCEPT ![l] = [DeadLoop EXCEPT !.signalled = TRUE,
                                                   !.mid = loop[l].mid]]
    /\ dbmutex' = db_detach(l)
    /\ UNCHANGED contVars
    /\ UNCHANGED <<db, cmd, updater, ceased, converged>>
    /\ UNCHANGED notState

\* select!: the shutdown branch; the loop breaks
LoopExit(l) ==
    /\ loop[l].pc = "select"
    /\ loop[l].signalled
    /\ loop' = [loop EXCEPT ![l] = [DeadLoop EXCEPT !.signalled = TRUE,
                                                   !.mid = loop[l].mid]]
    /\ UNCHANGED contVars
    /\ UNCHANGED <<db, dbmutex, cmd, updater, ceased, converged>>
    /\ UNCHANGED notState

\* select!: the update_interval branch; a cycle begins
LoopTick(l) ==
    /\ loop[l].pc = "select"
    /\ loop' = [loop EXCEPT ![l].pc = "pomo_lock", ![l].fresh = ceased,
                            ![l].replaced = FALSE, ![l].fault = "none"]
    /\ UNCHANGED contVars
    /\ UNCHANGED <<db, dbmutex, cmd, updater, ceased, converged>>
    /\ UNCHANGED notState

\* update_pomodoro_state: `pomodoro_service.write().await`
LoopPomodoroLock(l) ==
    /\ loop[l].pc = "pomo_lock"
    /\ updater.service_lock = NoProc
    /\ updater' = [updater EXCEPT !.service_lock = l]
    /\ loop' = [loop EXCEPT ![l].pc = "pomo_tick"]
    /\ UNCHANGED contVars
    /\ UNCHANGED <<db, dbmutex, cmd, ceased, converged>>
    /\ UNCHANGED notState

\* update_pomodoro_state: service.tick(), the event, the guard's release
LoopPomodoroTick(l) ==
    /\ loop[l].pc = "pomo_tick"
    /\ LET r == service_tick(updater.service) IN
        /\ updater' = [updater EXCEPT !.service = r.s, !.service_lock = NoProc]
        /\ lastEvent' = IF chan = "closed" THEN lastEvent ELSE app_event_of(r.event)
    /\ loop' = [loop EXCEPT ![l].pc = "reload"]
    /\ UNCHANGED <<state, rw, chan, call, obs, stable, calls>>
    /\ UNCHANGED <<db, dbmutex, cmd, ceased, converged>>
    /\ UNCHANGED notState

\* the 50 ms timeout fires while the step waits for the service's lock
LoopPomodoroTimeout(l) ==
    /\ loop[l].pc = "pomo_lock"
    /\ updater.service_lock # NoProc
    /\ loop' = [loop EXCEPT ![l].pc = after_fault(loop[l].pc),
                            ![l].fault = "timer_timeout"]
    /\ UNCHANGED contVars
    /\ UNCHANGED <<db, dbmutex, cmd, updater, ceased, converged>>
    /\ UNCHANGED notState

\* update_database_state: get_all_todos() returned Ok within the window;
\* bulk_update_todos is called with the list
LoopReload(l) ==
    /\ loop[l].pc = "reload"
    /\ dbmutex = l
    /\ dbmutex' = db_unlock(l)
    /\ call' = [call EXCEPT ![l] =
                   NewCall("bulk_update_todos", Database_get_all_todos(db.rows))]
    /\ loop' = [loop EXCEPT ![l].pc = "replace"]
    /\ UNCHANGED <<state, rw, chan, lastEvent, obs, stable, calls>>
    /\ UNCHANGED <<db, cmd, updater, ceased, converged>>
    /\ UNCHANGED notState

\* update_database_state: get_all_todos() returned Err; nothing is replaced
LoopReloadError(l) ==
    /\ loop[l].pc = "reload"
    /\ dbmutex = l
    /\ dbmutex' = db_unlock(l)
    /\ loop' = [loop EXCEPT ![l].pc = after_fault(loop[l].pc),
                            ![l].fault = "store_error"]
    /\ UNCHANGED contVars
    /\ UNCHANGED <<db, cmd, updater, ceased, converged>>
    /\ UNCHANGED notState

\* the 100 ms timeout fires while get_all_todos() is awaited; its closure is
\* left to itself
LoopReloadTimeout(l) ==
    /\ loop[l].pc = "reload"
    /\ dbmutex' = db_detach(l)
    /\ loop' = [loop EXCEPT ![l].pc = after_fault(loop[l].pc),
                            ![l].fault = "reload_timeout"]
    /\ UNCHANGED contVars
    /\ UNCHANGED <<db, cmd, updater, ceased, converged>>
    /\ UNCHANGED notState

\* bulk_update_todos is suspended at an await: at `self.state.write().await`
\* or at the `self.state.read().await` of its event, the lock being held
replace_pending(l) ==
    \/ call[l].pc = "lock" /\ ~write_lock_free
    \/ call[l].pc = "send" /\ ~read_lock_free

\* the 100 ms timeout fires while bulk_update_todos is suspended: the call is
\* dropped where it stands
LoopReplaceTimeout(l) ==
    /\ loop[l].pc = "replace"
    /\ replace_pending(l)
    /\ call' = [call EXCEPT ![l].timed_out = TRUE, ![l].pc = "done"]
    /\ loop' = [loop EXCEPT ![l].fault = "reload_timeout"]
    /\ UNCHANGED <<state, rw, chan, lastEvent, obs, stable, calls>>
    /\ UNCHANGED <<db, dbmutex, cmd, updater, ceased, converged>>
    /\ UNCHANGED notState

\* update_database_state is over: `let _ = bulk_update_todos(..).await`
LoopReplaceDone(l) ==
    /\ loop[l].pc = "replace"
    /\ call[l].pc = "done"
    /\ loop' = [loop EXCEPT ![l].pc = IF call[l].timed_out
                                      THEN after_fault(loop[l].pc) ELSE "settings",
                            ![l].replaced = call[l].applied]
    /\ call' = [call EXCEPT ![l] = IdleCall]
    /\ UNCHANGED <<state, rw, chan, lastEvent, obs, stable, calls>>
    /\ UNCHANGED <<db, dbmutex, cmd, updater, ceased, converged>>
    /\ UNCHANGED notState

\* `let _ = state_manager.send_event(AppEvent::SettingsUpdated);` the cycle
\* is over and the loop is back at its select!
LoopSettings(l) ==
    /\ loop[l].pc = "settings"
    /\ lastEvent' = IF chan = "closed" THEN lastEvent
                    ELSE [kind |-> "SettingsUpdated", data |-> None]
    /\ loop' = [loop EXCEPT ![l].pc = "select"]
    /\ converged' = (converged \/ (loop[l].fresh /\ loop[l].replaced))
    /\ UNCHANGED <<state, rw, chan, call, obs, stable, calls>>
    /\ UNCHANGED <<db, dbmutex, cmd, updater, ceased>>
    /\ UNCHANGED notState

\* a step of a cycle of loop l
LoopStep(l) ==
    \/ LoopTick(l)
    \/ LoopPomodoroLock(l)
    \/ LoopPomodoroTick(l)
    \/ LoopDbLock(l)
    \/ LoopReload(l)
    \/ LoopReloadError(l)
    \/ LoopReloadTimeout(l)
    \/ loop[l].pc = "replace" /\ CallStep(l)
    \/ LoopReplaceTimeout(l)
    \/ LoopReplaceDone(l)
    \/ LoopSettings(l)

\* ---- next-state relations ------------------------------------------------

\* the application: PomodoroAppManager::start starts the updater, the
\* commands run one at a time, the loop runs its cycles
StateNext ==
    \/ UpdaterStart
    \/ CmdInvoke
    \/ CmdDbLock
    \/ CmdStore
    \/ cmd.pc = "state" /\ CallStep(Cmd)
    \/ CmdStateDone
    \/ CmdRead
    \/ CommandsCease
    \/ \E l \in LoopIds : LoopStep(l)
    \/ ClosureEnd

\* the updater started and stopped at will
UpdaterNext ==
    \/ UpdaterStart
    \/ UpdaterStop
    \/ \E l \in LoopIds : LoopExit(l)
    \/ \E l \in LoopIds : LoopPomodoroTimeout(l)
    \/ \E l \in LoopIds : LoopStep(l)
    \/ ClosureEnd

\* ========================================================================
\* Task manager (async_utils/task_manager.rs)
\* ========================================================================

\* names under which tasks are registered (two of the TaskNames constants)
TaskNames == {"pomodoro-tick", "backup"}

Callers == {<<"caller", i>> : i \in 1..2}

\* TaskManager::new: an empty registry
TaskManager_new == [n \in TaskNames |-> NoneOpt]

\* a task handed to tokio::spawn: running, no result yet, its JoinHandle
\* not yet awaited to completion
Task(name) == [name |-> name, state |-> "running", result |-> None, joined |-> FALSE]

\* what the body of a task returns: Ok(()) or an error
TaskOutcomes == {"Ok", "Network"}

\* TaskMetadata::new and the registry entry: the handle, status Pending and
\* no error
TaskEntry(h) == [handle |-> h, status |-> "Pending", error |-> NoneOpt]

\* A call of a task manager method; raced: a spawn of the same name by
\* another caller was in flight when this spawn was called; after_cancel: the
\* caller's call before this one was a cancel of the same name that returned
\* true; timeout: the wait was given a timeout
IdleCaller == [op |-> None, name |-> None, pc |-> "idle", result |-> None,
               raced |-> FALSE, after_cancel |-> FALSE, timeout |-> FALSE]

\* TaskManager::exists
exists(name) == tasks[name] # NoneOpt

\* spawns that have been called and have not yet spawned or failed
SpawnsInFlight ==
    {c \in Callers : caller[c].op = "spawn" /\ caller[c].pc \in {"lock", "check", "spawn"}}

\* a Mutex that is handed out while it is held
mutex_unguarded == TRUE

\* `self.tasks.lock().await` returns: nobody holds the Mutex
mutex_free == mutex = NoProc

\* the MutexGuard of caller c is dropped
unlock(c) == IF mutex = c THEN NoProc ELSE mutex

\* an abort that leaves the task running
abort_ignored(hs, h) == hs

\* JoinHandle::abort: a task that has not finished is cancelled
abort(hs, h) ==
    IF hs[h].state = "running" THEN [hs EXCEPT ![h].state = "aborted"] ELSE hs

\* one of the methods ops is called (wait with a timeout or without), spawn
\* as long as fewer than max tasks were spawned
TmCall(c, ops, max) ==
    /\ caller[c].pc \in {"idle", "done"}
    /\ \E op \in ops :
         /\ op = "spawn" => Len(handles) + Cardinality(SpawnsInFlight) < max
         /\ \E n \in (IF op = "cleanup" THEN {None} ELSE TaskNames),
               to \in (IF op = "wait" THEN BOOLEAN ELSE {FALSE}) :
              caller' = [caller EXCEPT ![c] =
                  [IdleCaller EXCEPT
                      !.op = op, !.name = n, !.pc = "lock", !.timeout = to,
                      !.raced = /\ op = "spawn"
                                /\ \E d \in SpawnsInFlight : caller[d].name = n,
                      !.after_cancel = /\ caller[c].op = "cancel"
                                       /\ caller[c].name = n
                                       /\ caller[c].result = TRUE]]
    /\ UNCHANGED <<tasks, handles, mutex>>
    /\ UNCHANGED notTasks

\* spawn, cancel or cleanup is called
TmInvoke(c) == TmCall(c, {"spawn", "cancel", "cleanup"}, MaxSpawns)

\* spawn, cancel or wait is called
WaitInvoke(c) == TmCall(c, {"spawn", "cancel", "wait"}, MaxWaited)

\* `let mut tasks = self.tasks.lock().await;`
TmLock(c) ==
    /\ caller[c].pc = "lock"
    /\ mutex_free
    /\ mutex' = c
    /\ caller' = [caller EXCEPT ![c].pc = IF caller[c].op = "spawn" THEN "check" ELSE "body"]
    /\ UNCHANGED <<tasks, handles>>
    /\ UNCHANGED notTasks

\* spawn: `if tasks.contains_key(&name) { return Err(InvalidState) }`
SpawnCheck(c) ==
    /\ caller[c].pc = "check"
    /\ IF tasks[caller[c].name] # NoneOpt
       THEN /\ caller' = [caller EXCEPT ![c].result = "InvalidState", ![c].pc = "done"]
            /\ mutex' = unlock(c)
       ELSE /\ caller' = [caller EXCEPT ![c].pc = "spawn"]
            /\ UNCHANGED mutex
    /\ UNCHANGED <<tasks, handles>>
    /\ UNCHANGED notTasks

\* spawn: `tokio::spawn(future())`, `tasks.insert(name, (handle, metadata))`
\* and the return
SpawnInsert(c) ==
    /\ caller[c].pc = "spawn"
    /\ handles' = Append(handles, Task(caller[c].name))
    /\ tasks' = [tasks EXCEPT ![caller[c].name] = Some(TaskEntry(Len(handles) + 1))]
    /\ caller' = [caller EXCEPT ![c].result = "Ok", ![c].pc = "done"]
    /\ mutex' = unlock(c)
    /\ UNCHANGED notTasks

\* TaskManager::cancel under the Mutex
Cancel(c) ==
    /\ caller[c].pc = "body"
    /\ caller[c].op = "cancel"
    /\ IF tasks[caller[c].name] # NoneOpt
       THEN /\ handles' = abort(handles, tasks[caller[c].name][1].handle)
            /\ tasks' = [tasks EXCEPT ![caller[c].name] = NoneOpt]
            /\ caller' = [caller EXCEPT ![c].result = TRUE, ![c].pc = "done"]
       ELSE /\ caller' = [caller EXCEPT ![c].result = FALSE, ![c].pc = "done"]
            /\ UNCHANGED <<tasks, handles>>
    /\ mutex' = unlock(c)
    /\ UNCHANGED notTasks

\* TaskManager::list_tasks: the entries of the registry (their metadata, each
\* with the handle it was inserted with)
list_tasks == {tasks[n][1] : n \in {x \in TaskNames : exists(x)}}

\* wait: `if let Some((handle, _metadata)) = tasks.get_mut(name)`; with no
\* entry the result is Ok(None)
WaitCheck(c) ==
    /\ caller[c].pc = "body"
    /\ caller[c].op = "wait"
    /\ IF exists(caller[c].name)
       THEN /\ caller' = [caller EXCEPT ![c].pc = "await"]
            /\ UNCHANGED mutex
       ELSE /\ caller' = [caller EXCEPT ![c].result = "Ok(None)", ![c].pc = "done"]
            /\ mutex' = unlock(c)
    /\ UNCHANGED <<tasks, handles>>
    /\ UNCHANGED notTasks

\* what wait returns for the result r of the task
join_result(r) == IF r = "Ok" THEN "Ok(Some(Ok))" ELSE "Ok(Some(Err))"

\* wait: the awaited handle resolves, the task having ended. A JoinHandle
\* that has already given its result panics when it is polled again.
WaitJoin(c) ==
    /\ caller[c].pc = "await"
    /\ LET h == tasks[caller[c].name][1].handle
       IN /\ handles[h].state = "finished"
          /\ caller' = [caller EXCEPT
                 ![c].result = IF handles[h].joined THEN "panic"
                               ELSE join_result(handles[h].result),
                 ![c].pc = "done"]
          /\ handles' = [handles EXCEPT ![h].joined = TRUE]
    /\ mutex' = unlock(c)
    /\ UNCHANGED tasks
    /\ UNCHANGED notTasks

\* a timeout that cancels the task it waited for
elapsed_abort(hs, h) == abort(hs, h)

\* `timeout(timeout, handle)` borrows the handle: when the deadline elapses
\* the borrow is dropped and the task is left as it is
elapsed_drop(hs, h) == hs

\* wait with a timeout: the deadline elapses, the task not having ended
WaitTimeout(c) ==
    /\ caller[c].pc = "await"
    /\ caller[c].timeout
    /\ LET h == tasks[caller[c].name][1].handle
       IN /\ handles[h].state = "running"
          /\ handles' = elapsed_drop(handles, h)
    /\ caller' = [caller EXCEPT ![c].result = "Ok(None)", ![c].pc = "done"]
    /\ mutex' = unlock(c)
    /\ UNCHANGED tasks
    /\ UNCHANGED notTasks

\* every registered name, finished or not
Registered == {n \in TaskNames : tasks[n] # NoneOpt}

\* the names cleanup removes: those whose handle is_finished()
Finished ==
    {n \in TaskNames : tasks[n] # NoneOpt /\ handles[tasks[n][1].handle].state # "running"}

\* TaskManager::cleanup under the Mutex
Cleanup(c) ==
    /\ caller[c].pc = "body"
    /\ caller[c].op = "cleanup"
    /\ tasks' = [n \in TaskNames |-> IF n \in Finished THEN NoneOpt ELSE tasks[n]]
    /\ caller' = [caller EXCEPT ![c].result = Cardinality(Finished), ![c].pc = "done"]
    /\ mutex' = unlock(c)
    /\ UNCHANGED handles
    /\ UNCHANGED notTasks

\* a spawned task runs to its end and returns r
finish(hs, h, r) == [hs EXCEPT ![h].state = "finished", ![h].result = r]

TaskFinish(h) ==
    /\ handles[h].state = "running"
    /\ \E r \in TaskOutcomes : handles' = finish(handles, h, r)
    /\ UNCHANGED <<tasks, mutex, caller>>
    /\ UNCHANGED notTasks

TasksNext ==
    \/ \E c \in Callers : TmInvoke(c)
    \/ \E c \in Callers : TmLock(c)
    \/ \E c \in Callers : SpawnCheck(c)
    \/ \E c \in Callers : SpawnInsert(c)
    \/ \E c \in Callers : Cancel(c)
    \/ \E c \in Callers : Cleanup(c)
    \/ \E h \in 1..Len(handles) : TaskFinish(h)

WaitNext ==
    \/ \E c \in Callers : WaitInvoke(c)
    \/ \E c \in Callers : TmLock(c)
    \/ \E c \in Callers : SpawnCheck(c)
    \/ \E c \in Callers : SpawnInsert(c)
    \/ \E c \in Callers : Cancel(c)
    \/ \E c \in Callers : WaitCheck(c)
    \/ \E c \in Callers : WaitJoin(c)
    \/ \E c \in Callers : WaitTimeout(c)
    \/ \E h \in 1..Len(handles) : TaskFinish(h)

\* ------------------------------------------------------------------------
\* spawn_with_retry
\* ------------------------------------------------------------------------

\* the errors a factory's future returns (four of the AppError variants)
ErrorKinds == {"Network", "Timeout", "Validation", "InvalidState"}

\* AppError::is_retryable
is_retryable(e) == e \in {"Network", "Timeout"}

\* The retry body: max_retries, attempt, the number of factory invocations,
\* the outcome of the last one, the factor of retry_delay it sleeps for, and
\* whether the build checks arithmetic overflow (debug) or wraps (release)
IdleRetry == [pc |-> "idle", max_retries |-> 0, attempt |-> 0, invoked |-> 0,
              outcome |-> None, factor |-> [kind |-> None, log2 |-> 0],
              overflow_checks |-> FALSE]

\* `2_u32.pow(e)`: 2^e as long as it fits 32 bits; beyond, a panic where
\* overflow is checked and the wrapped product, 0, where it is not. A power
\* of two is written by its exponent.
Pow2(e) == [kind |-> "pow2", log2 |-> e]

u32_pow2(e, overflow_checks) ==
    IF e < 32 THEN Pow2(e)
    ELSE IF overflow_checks THEN [kind |-> "panic", log2 |-> 0]
    ELSE [kind |-> "zero", log2 |-> 0]

\* the task the retry body runs as
RetryName == "backup"

\* spawn_with_retry: the retry body is spawned under the name
RetrySpawn ==
    /\ retry.pc = "idle"
    /\ mutex_free
    /\ ~exists(RetryName)
    /\ \E m \in 0..MaxRetries, oc \in BOOLEAN :
          retry' = [IdleRetry EXCEPT !.pc = "factory", !.max_retries = m,
                                     !.overflow_checks = oc]
    /\ handles' = Append(handles, Task(RetryName))
    /\ tasks' = [tasks EXCEPT ![RetryName] = Some(TaskEntry(Len(handles) + 1))]
    /\ UNCHANGED <<mutex, caller>>
    /\ UNCHANGED notRetry

\* `future_factory().await` gives Ok: `return Ok(())`
FactoryOk ==
    /\ retry.pc = "factory"
    /\ retry' = [retry EXCEPT !.invoked = @ + 1, !.outcome = "Ok", !.pc = "done"]
    /\ handles' = finish(handles, tasks[RetryName][1].handle, "Ok")
    /\ UNCHANGED <<tasks, mutex, caller>>
    /\ UNCHANGED notRetry

\* `future_factory().await` gives Err(e): attempt += 1, the return at
\* attempt >= max_retries, otherwise the delay is computed and slept
FactoryErr(e) ==
    /\ retry.pc = "factory"
    /\ LET attempt == retry.attempt + 1
           r == [retry EXCEPT !.invoked = @ + 1, !.outcome = e, !.attempt = attempt]
           f == u32_pow2(attempt - 1, retry.overflow_checks)
       IN IF attempt >= retry.max_retries
          THEN /\ retry' = [r EXCEPT !.pc = "done"]
               /\ handles' = finish(handles, tasks[RetryName][1].handle, e)
          ELSE IF f.kind = "panic"
          THEN /\ retry' = [r EXCEPT !.pc = "done"]
               /\ handles' = [handles EXCEPT ![tasks[RetryName][1].handle].state = "panicked"]
          ELSE /\ retry' = [r EXCEPT !.pc = "sleep", !.factor = f]
               /\ UNCHANGED handles
    /\ UNCHANGED <<tasks, mutex, caller>>
    /\ UNCHANGED notRetry

\* `tokio::time::sleep(delay).await` is over
RetrySleep ==
    /\ retry.pc = "sleep"
    /\ retry' = [retry EXCEPT !.pc = "factory"]
    /\ UNCHANGED taskVars
    /\ UNCHANGED notRetry

RetryNext ==
    \/ RetrySpawn
    \/ FactoryOk
    \/ \E e \in ErrorKinds : FactoryErr(e)
    \/ RetrySleep

\* ------------------------------------------------------------------------
\* spawn_with_limit
\* ------------------------------------------------------------------------

\* create_semaphore(n) and no task under it: the free permits, and per task
\* spawned (in the order of handles) where its future stands: "acquire"
\* (waiting for a permit), "body" (holding one), "done" (returned or dropped)
Semaphore_new(n) == [permits |-> n, free |-> n, pc |-> <<>>]

IdleLimit == Semaphore_new(0)

\* a semaphore that hands out permits it does not have
acquire_unlimited == TRUE

\* `semaphore.acquire().await` is granted when a permit is free
acquire_ready == limit.free > 0

\* the tasks whose body holds a permit
Bodies == {h \in 1..Len(handles) : limit.pc[h] = "body"}

\* spawn_with_limit(name, future, semaphore) on a name that is free
LimitSpawn(n) ==
    /\ Len(handles) < MaxSpawns
    /\ mutex_free
    /\ ~exists(n)
    /\ handles' = Append(handles, Task(n))
    /\ tasks' = [tasks EXCEPT ![n] = Some(TaskEntry(Len(handles) + 1))]
    /\ limit' = [limit EXCEPT !.pc = Append(@, "acquire")]
    /\ UNCHANGED <<mutex, caller>>
    /\ UNCHANGED notLimit

\* the task is granted its permit and goes on to `future().await`
LimitAcquire(h) ==
    /\ handles[h].state = "running"
    /\ limit.pc[h] = "acquire"
    /\ acquire_ready
    /\ limit' = [limit EXCEPT !.free = @ - 1, !.pc[h] = "body"]
    /\ UNCHANGED taskVars
    /\ UNCHANGED notLimit

\* `future().await` returns r: the task ends and _permit is dropped
LimitReturn(h) ==
    /\ handles[h].state = "running"
    /\ limit.pc[h] = "body"
    /\ \E r \in TaskOutcomes : handles' = finish(handles, h, r)
    /\ limit' = [limit EXCEPT !.free = @ + 1, !.pc[h] = "done"]
    /\ UNCHANGED <<tasks, mutex, caller>>
    /\ UNCHANGED notLimit

\* cancel(name) on a registered name: the entry is removed, the task aborted
LimitCancel(n) ==
    /\ mutex_free
    /\ exists(n)
    /\ handles' = abort(handles, tasks[n][1].handle)
    /\ tasks' = [tasks EXCEPT ![n] = NoneOpt]
    /\ UNCHANGED <<mutex, caller, limit>>
    /\ UNCHANGED notLimit

\* the runtime drops the future of an aborted task, and with it the permit
\* the future holds
LimitDrop(h) ==
    /\ handles[h].state = "aborted"
    /\ limit.pc[h] # "done"
    /\ limit' = [limit EXCEPT !.free = IF limit.pc[h] = "body" THEN @ + 1 ELSE @,
                              !.pc[h] = "done"]
    /\ UNCHANGED taskVars
    /\ UNCHANGED notLimit

LimitNext ==
    \/ \E n \in TaskNames : LimitSpawn(n)
    \/ \E h \in 1..Len(handles) : LimitAcquire(h)
    \/ \E h \in 1..Len(handles) : LimitReturn(h)
    \/ \E n \in TaskNames : LimitCancel(n)
    \/ \E h \in 1..Len(handles) : LimitDrop(h)

\* ------------------------------------------------------------------------
\* create_event_receiver by concurrent callers on clones of the manager
\* ------------------------------------------------------------------------

\* the callers of create_event_receiver and the handles they call it on (the
\* manager and a clone of it: `#[derive(Clone)]` shares the Arc of the
\* stored receiver)
RecvCallers == {<<"recv", i>> : i \in 1..3}
ManagerClones == 1..2

IdleRecv == [pc |-> "idle", clone |-> 0, result |-> None, attempts |-> 0]

\* AppStateManager::new: the receiver is stored (chan = "held"), the std
\* Mutex around it is free, no receiver was handed out
EventReceiver_new ==
    [mutex |-> NoProc, made |-> 0, call |-> [c \in RecvCallers |-> IdleRecv]]

\* an Option whose take() leaves the value in place
Option_peek(ch) == ch

\* Option::take on the stored receiver: the option is left empty ("taken")
Option_take(ch) == IF ch = "held" THEN "taken" ELSE ch

\* create_event_receiver is called on a handle: `self.event_receiver.lock()`
RecvLock(c, k) ==
    /\ recv.call[c].pc \in {"idle", "done"}
    /\ recv.call[c].attempts < MaxAttempts
    /\ recv.mutex = NoProc
    /\ recv' = [recv EXCEPT !.mutex = c,
                            !.call[c] = [pc |-> "locked", clone |-> k, result |-> None,
                                         attempts |-> @.attempts + 1]]
    /\ UNCHANGED contVars
    /\ UNCHANGED notRecv

\* `.take().ok_or_else(|| AppError::Other("Event receiver already taken"))`,
\* `Ok(EventReceiver::new(receiver))`, and the guard is dropped
RecvTake(c) ==
    /\ recv.call[c].pc = "locked"
    /\ chan' = Option_take(chan)
    /\ recv' = [recv EXCEPT !.mutex = NoProc,
                            !.made = IF chan = "held" THEN @ + 1 ELSE @,
                            !.call[c].pc = "done",
                            !.call[c].result = IF chan = "held" THEN "Ok" ELSE "AlreadyTaken"]
    /\ UNCHANGED <<state, rw, lastEvent, call, obs, stable, calls>>
    /\ UNCHANGED notRecv

\* the EventReceiver handed out is dropped
RecvDrop ==
    /\ DropEventReceiver
    /\ UNCHANGED recv

ReceiverNext ==
    \/ \E c \in RecvCallers, k \in ManagerClones : RecvLock(c, k)
    \/ \E c \in RecvCallers : RecvTake(c)
    \/ RecvDrop

\* ========================================================================
\* Query channel (core/state/app_state.rs)
\* ========================================================================

\* StateQuery
StateQuery == {"GetTodos", "GetFilteredTodos", "GetTodoStats",
               "GetPomodoroSession", "GetUserConfig"}

\* the variant of StateQueryResponse that answers a query
response_variant(q) ==
    CASE q = "GetTodos" -> "Todos"
      [] q = "GetFilteredTodos" -> "FilteredTodos"
      [] q = "GetTodoStats" -> "TodoStats"
      [] q = "GetPomodoroSession" -> "PomodoroSession"
      [] q = "GetUserConfig" -> "UserConfig"

\* the callers of send_query
QueryClients == {<<"query", i>> : i \in 1..3}

\* AppStateManager::new: the unbounded query channel, empty, its receiver
\* stored in the manager; per client the query whose response it awaits and
\* the response its oneshot has received
QueryChannel_new ==
    [queue |-> <<>>,
     awaiting |-> [c \in QueryClients |-> NoneOpt],
     response |-> [c \in QueryClients |-> NoneOpt]]

\* send_query: a oneshot is created and (query, tx) is sent on the query
\* channel, whose receiver the manager itself keeps, so that the send
\* succeeds; the caller then awaits rx. The receiver is never taken out of
\* the manager and nothing reads from it: no step of the program answers
\* the oneshot or drops its sender, and `rx.await` has no continuation.
SendQuery(c, q) ==
    /\ query.awaiting[c] = NoneOpt
    /\ query' = [query EXCEPT !.queue = Append(@, [query |-> q, tx |-> c]),
                              !.awaiting[c] = Some(q)]
    /\ UNCHANGED notQuery

QueryNext == \E c \in QueryClients, q \in StateQuery : SendQuery(c, q)

\* ========================================================================
\* Timer commands of the application (lib.rs)
\* ========================================================================

\* rounds of the pomodoro-tick task followed after a start_pomodoro
MaxTicks == 5

\* the pomodoro-tick task before it is spawned; service: the clone of the
\* timer service the task owns, n: its ticks since start_pomodoro returned
\* last, completed: what its last tick() returned, published: whether it
\* sent a PhaseCompleted event for that tick
IdleTicker == [pc |-> "none", service |-> NoneOpt, n |-> 0,
               completed |-> FALSE, published |-> FALSE]

TimerCommands == {"start_pomodoro", "pause_pomodoro", "reset_pomodoro",
                  "skip_pomodoro_phase"}

\* PomodoroService::pause, reset, skip on the session of the service
service_op(op, s) ==
    CASE op = "pause_pomodoro" -> session_pause(s)
      [] op = "reset_pomodoro" -> session_reset(s)
      [] op = "skip_pomodoro_phase" -> session_skip(s)

\* start_pomodoro: the session is reset first when its time is up, or when
\* it is stopped with its whole duration remaining
reset_before_start(s) ==
    IF s.remaining = 0 \/ (~s.is_running /\ s.remaining = s.duration)
    THEN session_reset(s).s
    ELSE s

\* A timer command is issued. pause, reset and skip apply the operation to
\* the service and, unless it failed (`?`), go on to store the session in
\* the container; start resets the session if need be and goes on to load
\* the todos.
TimerInvoke ==
    /\ cmd.pc = "idle"
    /\ calls < MaxCalls
    /\ \E op \in TimerCommands :
         IF op = "start_pomodoro"
         THEN /\ session' = reset_before_start(session)
              /\ cmd' = [IdleCmd EXCEPT !.op = op, !.pc = "load"]
              /\ UNCHANGED call
         ELSE LET r == service_op(op, session)
              IN IF r.ok
                 THEN /\ session' = r.s
                      /\ cmd' = [IdleCmd EXCEPT !.op = op, !.pc = "state"]
                      /\ call' = [call EXCEPT ![Cmd] = NewCall("set_pomodoro_session", r.s)]
                 ELSE UNCHANGED <<session, cmd, call>>
    /\ returned' = IF cmd'.pc = "idle" THEN "Err" ELSE returned
    /\ calls' = calls + 1
    /\ UNCHANGED <<state, rw, chan, lastEvent, obs, stable, tasks, handles, ticker>>
    /\ UNCHANGED notTimer

\* start_pomodoro: `self.database.get_all_todos().await?` and the call of
\* bulk_update_todos
TimerLoad ==
    /\ cmd.pc = "load"
    /\ dbmutex = Cmd
    /\ dbmutex' = db_unlock(Cmd)
    /\ cmd' = [cmd EXCEPT !.pc = "bulk"]
    /\ call' = [call EXCEPT ![Cmd] = NewCall("bulk_update_todos",
                                             Database_get_all_todos(db.rows))]
    /\ UNCHANGED <<session, state, rw, chan, lastEvent, obs, stable, calls, tasks, handles>>
    /\ UNCHANGED <<lastOp, driven, workDone, elapsed, db, updater, loop, ceased, converged>>
    /\ UNCHANGED <<mutex, caller, auxVars>>

\* start_pomodoro: bulk_update_todos has returned (`?`), then
\* `self.pomodoro_service.start()?` and the call of set_pomodoro_session
TimerStart ==
    /\ cmd.pc = "bulk"
    /\ call[Cmd].pc = "done"
    /\ LET r == session_start(session)
       IN IF call[Cmd].ok /\ r.ok
          THEN /\ session' = r.s
               /\ cmd' = [cmd EXCEPT !.pc = "state"]
               /\ call' = [call EXCEPT ![Cmd] = NewCall("set_pomodoro_session", r.s)]
               /\ UNCHANGED returned
          ELSE /\ cmd' = IdleCmd
               /\ call' = [call EXCEPT ![Cmd] = IdleCall]
               /\ returned' = "Err"
               /\ UNCHANGED session
    /\ UNCHANGED <<state, rw, chan, lastEvent, obs, stable, calls, tasks, handles, ticker>>
    /\ UNCHANGED notTimer

\* set_pomodoro_session has returned and the command returns Ok; before
\* that start_pomodoro spawns the tick task under its name; the result of
\* the spawn is dropped (`let _ =`), so that a name already registered is
\* left as it is and the closure is dropped with the clone of the service
\* made for it. The task spawned owns that clone
\* (`Arc::new(RwLock::new(self.pomodoro_service.clone()))`).
TimerDone ==
    /\ cmd.pc = "state"
    /\ call[Cmd].pc = "done"
    /\ call' = [call EXCEPT ![Cmd] = IdleCall]
    /\ cmd' = IdleCmd
    /\ returned' = cmd.op
    /\ IF cmd.op = "start_pomodoro"
       THEN IF ~exists("pomodoro-tick")
            THEN /\ handles' = Append(handles, Task("pomodoro-tick"))
                 /\ tasks' = [tasks EXCEPT
                                !["pomodoro-tick"] = Some(TaskEntry(Len(handles) + 1))]
                 /\ ticker' = [IdleTicker EXCEPT !.pc = "interval",
                                                 !.service = Some(session)]
            ELSE /\ ticker' = [ticker EXCEPT !.n = 0]
                 /\ UNCHANGED <<tasks, handles>>
       ELSE UNCHANGED <<tasks, handles, ticker>>
    /\ UNCHANGED <<session, state, rw, chan, lastEvent, obs, stable, calls>>
    /\ UNCHANGED notTimer

\* PomodoroAppManager::get_pomodoro_session: a clone of the session of the
\* manager's own service
get_pomodoro_session == Some(session)

\* the event the pomodoro-tick task sends after a tick() that returned Ok:
\* PomodoroEvent::PhaseCompleted with the phase of the session after the
\* tick in both phase fields
tick_task_event(s) ==
    [kind |-> "PomodoroEvent",
     data |-> [event |-> "PhaseCompleted", completed_phase |-> s.phase,
               next_phase |-> s.phase, cycle_count |-> s.cycle_count]]

\* one round of the task's loop up to its await of set_pomodoro_session:
\* `interval.tick().await`, `session.tick()` on the clone the task owns,
\* `if let Ok(_phase_completed) = session.tick()` and the send_event under
\* it, then the call of set_pomodoro_session with the session ticked
TickTaskTick ==
    /\ ticker.pc = "interval"
    /\ ticker.n < MaxTicks
    /\ LET r == session_tick(ticker.service[1]) IN
        /\ ticker' = [ticker EXCEPT !.pc = "store", !.service = Some(r.s),
                                    !.n = @ + 1, !.completed = r.completed,
                                    !.published = r.ok /\ chan # "closed"]
        /\ lastEvent' = IF r.ok /\ chan # "closed"
                        THEN tick_task_event(r.s) ELSE lastEvent
        /\ call' = [call EXCEPT ![Ticker] = NewCall("set_pomodoro_session", r.s)]
    /\ UNCHANGED <<session, state, rw, chan, obs, stable, calls, tasks, handles,
                   cmd, returned>>
    /\ UNCHANGED notTimer

\* set_pomodoro_session has returned (`let _ =`); the loop goes round
TickTaskStored ==
    /\ ticker.pc = "store"
    /\ call[Ticker].pc = "done"
    /\ call' = [call EXCEPT ![Ticker] = IdleCall]
    /\ ticker' = [ticker EXCEPT !.pc = "interval"]
    /\ UNCHANGED <<session, state, rw, chan, lastEvent, obs, stable, calls, tasks,
                   handles, cmd, returned>>
    /\ UNCHANGED notTimer

TimerNext ==
    \/ TimerInvoke
    \/ CmdDbLock
    \/ TimerLoad
    \/ TimerStart
    \/ TimerDone
    \/ cmd.pc \in {"bulk", "state"} /\ CallStep(Cmd)
    \/ TickTaskTick
    \/ ticker.pc = "store" /\ CallStep(Ticker)
    \/ TickTaskStored
    \/ CreateEventReceiver
    \/ DropEventReceiver

\* ========================================================================
\* User configuration (lib.rs, src-tauri/src/commands)
\* ========================================================================

\* UserConfig: the four timer fields and the theme (the two notification
\* flags play no part)
UserConfig(w, s, l, c, theme) ==
    [pomodoro_work_duration |-> w, pomodoro_short_break_duration |-> s,
     pomodoro_long_break_duration |-> l, pomodoro_cycles_until_long_break |-> c,
     theme |-> theme]

\* the row Database::init inserts when there is none (and UserConfig::default)
UserConfig_default == UserConfig(1500, 300, 900, 4, "light")

\* validate_user_config of the save_user_config command
validate_user_config(config) ==
    /\ ~(config.pomodoro_work_duration < 60 \/ config.pomodoro_work_duration > 3600)
    /\ ~(config.pomodoro_short_break_duration < 60
          \/ config.pomodoro_short_break_duration > 1800)
    /\ ~(config.pomodoro_long_break_duration < 60
          \/ config.pomodoro_long_break_duration > 3600)
    /\ ~(config.pomodoro_cycles_until_long_break < 1
          \/ config.pomodoro_cycles_until_long_break > 10)
    /\ ~(config.theme # "light" /\ config.theme # "dark" /\ config.theme # "system")

\* the PomodoroConfig built field by field from a UserConfig
pomodoro_config_of(config) ==
    PomodoroConfig(config.pomodoro_work_duration, config.pomodoro_short_break_duration,
                   config.pomodoro_long_break_duration,
                   config.pomodoro_cycles_until_long_break)

\* Configurations the user sends: the default one, one at the lower bounds
\* of validate_user_config, one with no cycles, one with too short a work
\* time, one with a work time between the two upper bounds, one with an
\* unknown theme.
UserConfigs ==
    {UserConfig(1500, 300, 900, 4, "light"), UserConfig(60, 60, 60, 1, "dark"),
     UserConfig(1500, 300, 900, 0, "light"), UserConfig(59, 300, 900, 4, "light"),
     UserConfig(3601, 300, 900, 4, "system"), UserConfig(1500, 300, 900, 4, "blue")}

\* the result of a command on the configuration, in the shape of lastOp
ConfigOp(op, ok, error) ==
    [NoOp EXCEPT !.op = op, !.ok = ok, !.error = error,
                 !.from = session.phase, !.to = session.phase]

notConfig == <<driven, workDone, elapsed, contVars, updVars, taskVars, retry, limit, query, recv,
               checked, ticker, returned>>

\* the save_user_config command: validate_user_config, then
\* Database::save_user_config
SaveUserConfig ==
    \E config \in UserConfigs :
        /\ IF validate_user_config(config)
           THEN /\ stored' = Some(config)
                /\ lastOp' = ConfigOp("save_user_config", TRUE, "none")
           ELSE /\ UNCHANGED stored
                /\ lastOp' = ConfigOp("save_user_config", FALSE, "Validation")
        /\ UNCHANGED session
        /\ UNCHANGED notConfig

\* what update_pomodoro_config leaves alone
notConfigUpdate == <<driven, workDone, elapsed, rw, chan, call, obs, calls, updVars, taskVars,
                     retry, limit, query, recv, checked, ticker, returned>>

\* the update_pomodoro_config command, which builds its UserConfig with the
\* theme "light", and PomodoroAppManager::update_pomodoro_config:
\* `self.database.save_user_config(&config).await?`, then
\* `self.pomodoro_service.update_config(pomodoro_config)?`, then
\* `self.state_manager.set_user_config(config).await` with its event
UpdatePomodoroConfig ==
    \E config \in UserConfigs :
        LET given == [config EXCEPT !.theme = "light"]
            r == session_update_config(session, pomodoro_config_of(given))
        IN
        /\ stored' = Some(given)
        /\ session' = r.s
        /\ lastOp' = ConfigOp("update_pomodoro_config", r.ok,
                              IF r.ok THEN "none" ELSE session_error("update_config"))
        /\ IF r.ok
           THEN /\ state' = mutate("set_user_config", given, state).st
                /\ stable' = state'
                /\ lastEvent' = event_of("set_user_config", given, given, state')
           ELSE UNCHANGED <<state, stable, lastEvent>>
        /\ UNCHANGED notConfigUpdate

\* the application is started again: PomodoroAppManager::new loads the user
\* configuration and builds the service from it, or from the default one
\* if there is none
AppStart ==
    /\ session' = session_new(IF stored = NoneOpt THEN DefaultConfig
                              ELSE pomodoro_config_of(stored[1]))
    /\ lastOp' = NoOp
    /\ UNCHANGED stored
    /\ UNCHANGED notConfig

\* the commands on the configuration, the restart of the application, and
\* the timer started, paused and reset in between
ConfigNext ==
    \/ SaveUserConfig
    \/ UpdatePomodoroConfig
    \/ AppStart
    \/ Start
    \/ Pause
    \/ Reset

\* ========================================================================
\* PomodoroConfig::validate on its own
\* ========================================================================

\* the values of a duration field (u64) and of the cycles field (u32) around
\* the bounds validate compares them with, and the least value of the type
WorkDurations == {0, 59, 60, 7200, 7201}
ShortBreakDurations == {0, 59, 60, 1800, 1801}
LongBreakDurations == {0, 299, 300, 3600, 3601}
CycleCounts == {0, 1, 2, 10, 11}

ValidateInputs ==
    {PomodoroConfig(w, s, l, c) : w \in WorkDurations, s \in ShortBreakDurations,
                                  l \in LongBreakDurations, c \in CycleCounts}

\* validate() is called on the configuration and returns Ok(()) or
\* Err(AppError::Validation(..))
Validate ==
    /\ checked.result = "pending"
    /\ checked' = [checked EXCEPT !.result = IF validate(checked.config)
                                             THEN "Ok" ELSE session_error("update_config")]
    /\ UNCHANGED <<sessVars, contVars, updVars, taskVars>>
    /\ UNCHANGED <<retry, limit, query, recv, stored, ticker, returned>>

ValidateNext ==
    \/ Validate

\* ========================================================================
\* Specifications
\* ========================================================================

\* Initial states. Every specification starts all the components as they are
\* constructed (PomodoroSession::new, AppStateManager::new, Database::init,
\* StateUpdater::new, TaskManager::new) and then runs its own.

\* a new session under one of the configurations of NewConfigs
InitSession ==
    /\ \E c \in NewConfigs : session = session_new(c)
    /\ lastOp = NoOp
    /\ driven = FALSE
    /\ workDone = 0
    /\ elapsed = 0
    /\ state = AppState_new
    /\ rw = [writer |-> NoProc, readers |-> {}]
    /\ chan = "held"
    /\ lastEvent = [kind |-> None, data |-> None]
    /\ stable = AppState_new
    /\ calls = 0
    /\ call = [p \in Procs |-> IdleCall]
    /\ obs = [r \in Readers |-> IdleObs]
    /\ db = Database_init
    /\ cmd = IdleCmd
    /\ updater = StateUpdater_new
    /\ loop = [l \in LoopIds |-> DeadLoop]
    /\ ceased = FALSE
    /\ converged = FALSE
    /\ tasks = TaskManager_new
    /\ handles = <<>>
    /\ mutex = NoProc
    /\ caller = [c \in Callers |-> IdleCaller]
    /\ retry = IdleRetry
    /\ limit = IdleLimit
    /\ query = QueryChannel_new
    /\ recv = EventReceiver_new
    /\ dbmutex = NoProc
    /\ stored = Some(UserConfig_default)
    /\ checked = [config |-> DefaultConfig, result |-> "pending"]
    /\ ticker = IdleTicker
    /\ returned = None

\* the application started for the first time: the store holds the default
\* row and the service is built from it
InitConfig ==
    /\ session = session_new(pomodoro_config_of(UserConfig_default))
    /\ lastOp = NoOp
    /\ driven = FALSE
    /\ workDone = 0
    /\ elapsed = 0
    /\ state = AppState_new
    /\ rw = [writer |-> NoProc, readers |-> {}]
    /\ chan = "held"
    /\ lastEvent = [kind |-> None, data |-> None]
    /\ stable = AppState_new
    /\ calls = 0
    /\ call = [p \in Procs |-> IdleCall]
    /\ obs = [r \in Readers |-> IdleObs]
    /\ db = Database_init
    /\ cmd = IdleCmd
    /\ updater = StateUpdater_new
    /\ loop = [l \in LoopIds |-> DeadLoop]
    /\ ceased = FALSE
    /\ converged = FALSE
    /\ tasks = TaskManager_new
    /\ handles = <<>>
    /\ mutex = NoProc
    /\ caller = [c \in Callers |-> IdleCaller]
    /\ retry = IdleRetry
    /\ limit = IdleLimit
    /\ query = QueryChannel_new
    /\ recv = EventReceiver_new
    /\ dbmutex = NoProc
    /\ stored = Some(UserConfig_default)
    /\ checked = [config |-> DefaultConfig, result |-> "pending"]
    /\ ticker = IdleTicker
    /\ returned = None

\* a configuration of ValidateInputs is about to be validated
InitValidate ==
    /\ session = session_new(pomodoro_config_of(UserConfig_default))
    /\ lastOp = NoOp
    /\ driven = FALSE
    /\ workDone = 0
    /\ elapsed = 0
    /\ state = AppState_new
    /\ rw = [writer |-> NoProc, readers |-> {}]
    /\ chan = "held"
    /\ lastEvent = [kind |-> None, data |-> None]
    /\ stable = AppState_new
    /\ calls = 0
    /\ call = [p \in Procs |-> IdleCall]
    /\ obs = [r \in Readers |-> IdleObs]
    /\ db = Database_init
    /\ cmd = IdleCmd
    /\ updater = StateUpdater_new
    /\ loop = [l \in LoopIds |-> DeadLoop]
    /\ ceased = FALSE
    /\ converged = FALSE
    /\ tasks = TaskManager_new
    /\ handles = <<>>
    /\ mutex = NoProc
    /\ caller = [c \in Callers |-> IdleCaller]
    /\ retry = IdleRetry
    /\ limit = IdleLimit
    /\ query = QueryChannel_new
    /\ recv = EventReceiver_new
    /\ dbmutex = NoProc
    /\ stored = Some(UserConfig_default)
    /\ \E c \in ValidateInputs : checked = [config |-> c, result |-> "pending"]
    /\ ticker = IdleTicker
    /\ returned = None

\* a new container
InitContainer ==
    /\ state = AppState_new
    /\ rw = [writer |-> NoProc, readers |-> {}]
    /\ chan = "held"
    /\ lastEvent = [kind |-> None, data |-> None]
    /\ stable = AppState_new
    /\ calls = 0
    /\ call = [p \in Procs |-> IdleCall]
    /\ obs = [r \in Readers |-> IdleObs]
    /\ session = session_new(DefaultConfig)
    /\ lastOp = NoOp
    /\ driven = FALSE
    /\ workDone = 0
    /\ elapsed = 0
    /\ db = Database_init
    /\ cmd = IdleCmd
    /\ updater = StateUpdater_new
    /\ loop = [l \in LoopIds |-> DeadLoop]
    /\ ceased = FALSE
    /\ converged = FALSE
    /\ tasks = TaskManager_new
    /\ handles = <<>>
    /\ mutex = NoProc
    /\ caller = [c \in Callers |-> IdleCaller]
    /\ retry = IdleRetry
    /\ limit = IdleLimit
    /\ query = QueryChannel_new
    /\ recv = EventReceiver_new
    /\ dbmutex = NoProc
    /\ stored = Some(UserConfig_default)
    /\ checked = [config |-> DefaultConfig, result |-> "pending"]
    /\ ticker = IdleTicker
    /\ returned = None

\* PomodoroAppManager::new: an empty store, a new container and updater
InitState ==
    /\ db = Database_init
    /\ cmd = IdleCmd
    /\ updater = StateUpdater_new
    /\ loop = [l \in LoopIds |-> DeadLoop]
    /\ ceased = FALSE
    /\ converged = FALSE
    /\ state = AppState_new
    /\ rw = [writer |-> NoProc, readers |-> {}]
    /\ chan = "held"
    /\ lastEvent = [kind |-> None, data |-> None]
    /\ stable = AppState_new
    /\ calls = 0
    /\ call = [p \in Procs |-> IdleCall]
    /\ obs = [r \in Readers |-> IdleObs]
    /\ session = session_new(DefaultConfig)
    /\ lastOp = NoOp
    /\ driven = FALSE
    /\ workDone = 0
    /\ elapsed = 0
    /\ tasks = TaskManager_new
    /\ handles = <<>>
    /\ mutex = NoProc
    /\ caller = [c \in Callers |-> IdleCaller]
    /\ retry = IdleRetry
    /\ limit = IdleLimit
    /\ query = QueryChannel_new
    /\ recv = EventReceiver_new
    /\ dbmutex = NoProc
    /\ stored = Some(UserConfig_default)
    /\ checked = [config |-> DefaultConfig, result |-> "pending"]
    /\ ticker = IdleTicker
    /\ returned = None

\* the application before its first timer command, its session under one of
\* the configurations of NewConfigs
InitTimer ==
    /\ db = Database_init
    /\ cmd = IdleCmd
    /\ updater = StateUpdater_new
    /\ loop = [l \in LoopIds |-> DeadLoop]
    /\ ceased = FALSE
    /\ converged = FALSE
    /\ state = AppState_new
    /\ rw = [writer |-> NoProc, readers |-> {}]
    /\ chan = "held"
    /\ lastEvent = [kind |-> None, data |-> None]
    /\ stable = AppState_new
    /\ calls = 0
    /\ call = [p \in Procs |-> IdleCall]
    /\ obs = [r \in Readers |-> IdleObs]
    /\ \E c \in NewConfigs : session = session_new(c)
    /\ lastOp = NoOp
    /\ driven = FALSE
    /\ workDone = 0
    /\ elapsed = 0
    /\ tasks = TaskManager_new
    /\ handles = <<>>
    /\ mutex = NoProc
    /\ caller = [c \in Callers |-> IdleCaller]
    /\ retry = IdleRetry
    /\ limit = IdleLimit
    /\ query = QueryChannel_new
    /\ recv = EventReceiver_new
    /\ dbmutex = NoProc
    /\ stored = Some(UserConfig_default)
    /\ checked = [config |-> DefaultConfig, result |-> "pending"]
    /\ ticker = IdleTicker
    /\ returned = None

\* an updater over a store that holds one task from an earlier run
InitUpdater ==
    /\ db = Database_create_todo(Database_init, "InProgress")
    /\ cmd = IdleCmd
    /\ updater = StateUpdater_new
    /\ loop = [l \in LoopIds |-> DeadLoop]
    /\ ceased = FALSE
    /\ converged = FALSE
    /\ state = AppState_new
    /\ rw = [writer |-> NoProc, readers |-> {}]
    /\ chan = "held"
    /\ lastEvent = [kind |-> None, data |-> None]
    /\ stable = AppState_new
    /\ calls = 0
    /\ call = [p \in Procs |-> IdleCall]
    /\ obs = [r \in Readers |-> IdleObs]
    /\ session = session_new(DefaultConfig)
    /\ lastOp = NoOp
    /\ driven = FALSE
    /\ workDone = 0
    /\ elapsed = 0
    /\ tasks = TaskManager_new
    /\ handles = <<>>
    /\ mutex = NoProc
    /\ caller = [c \in Callers |-> IdleCaller]
    /\ retry = IdleRetry
    /\ limit = IdleLimit
    /\ query = QueryChannel_new
    /\ recv = EventReceiver_new
    /\ dbmutex = NoProc
    /\ stored = Some(UserConfig_default)
    /\ checked = [config |-> DefaultConfig, result |-> "pending"]
    /\ ticker = IdleTicker
    /\ returned = None

\* an updater built on a timer service that has been started, under one of
\* the configurations of NewConfigs
InitTicking ==
    /\ db = Database_create_todo(Database_init, "InProgress")
    /\ cmd = IdleCmd
    /\ \E c \in NewConfigs :
         updater = [StateUpdater_new EXCEPT !.service = session_start(session_new(c)).s]
    /\ loop = [l \in LoopIds |-> DeadLoop]
    /\ ceased = FALSE
    /\ converged = FALSE
    /\ state = AppState_new
    /\ rw = [writer |-> NoProc, readers |-> {}]
    /\ chan = "held"
    /\ lastEvent = [kind |-> None, data |-> None]
    /\ stable = AppState_new
    /\ calls = 0
    /\ call = [p \in Procs |-> IdleCall]
    /\ obs = [r \in Readers |-> IdleObs]
    /\ session = session_new(DefaultConfig)
    /\ lastOp = NoOp
    /\ driven = FALSE
    /\ workDone = 0
    /\ elapsed = 0
    /\ tasks = TaskManager_new
    /\ handles = <<>>
    /\ mutex = NoProc
    /\ caller = [c \in Callers |-> IdleCaller]
    /\ retry = IdleRetry
    /\ limit = IdleLimit
    /\ query = QueryChannel_new
    /\ recv = EventReceiver_new
    /\ dbmutex = NoProc
    /\ stored = Some(UserConfig_default)
    /\ checked = [config |-> DefaultConfig, result |-> "pending"]
    /\ ticker = IdleTicker
    /\ returned = None

\* a new task manager
InitTasks ==
    /\ tasks = TaskManager_new
    /\ handles = <<>>
    /\ mutex = NoProc
    /\ caller = [c \in Callers |-> IdleCaller]
    /\ session = session_new(DefaultConfig)
    /\ lastOp = NoOp
    /\ driven = FALSE
    /\ workDone = 0
    /\ elapsed = 0
    /\ state = AppState_new
    /\ rw = [writer |-> NoProc, readers |-> {}]
    /\ chan = "held"
    /\ lastEvent = [kind |-> None, data |-> None]
    /\ stable = AppState_new
    /\ calls = 0
    /\ call = [p \in Procs |-> IdleCall]
    /\ obs = [r \in Readers |-> IdleObs]
    /\ db = Database_init
    /\ cmd = IdleCmd
    /\ updater = StateUpdater_new
    /\ loop = [l \in LoopIds |-> DeadLoop]
    /\ ceased = FALSE
    /\ converged = FALSE
    /\ retry = IdleRetry
    /\ limit = IdleLimit
    /\ query = QueryChannel_new
    /\ recv = EventReceiver_new
    /\ dbmutex = NoProc
    /\ stored = Some(UserConfig_default)
    /\ checked = [config |-> DefaultConfig, result |-> "pending"]
    /\ ticker = IdleTicker
    /\ returned = None

\* a new task manager and a semaphore of 1..MaxPermits permits
InitLimit ==
    /\ tasks = TaskManager_new
    /\ handles = <<>>
    /\ mutex = NoProc
    /\ caller = [c \in Callers |-> IdleCaller]
    /\ session = session_new(DefaultConfig)
    /\ lastOp = NoOp
    /\ driven = FALSE
    /\ workDone = 0
    /\ elapsed = 0
    /\ state = AppState_new
    /\ rw = [writer |-> NoProc, readers |-> {}]
    /\ chan = "held"
    /\ lastEvent = [kind |-> None, data |-> None]
    /\ stable = AppState_new
    /\ calls = 0
    /\ call = [p \in Procs |-> IdleCall]
    /\ obs = [r \in Readers |-> IdleObs]
    /\ db = Database_init
    /\ cmd = IdleCmd
    /\ updater = StateUpdater_new
    /\ loop = [l \in LoopIds |-> DeadLoop]
    /\ ceased = FALSE
    /\ converged = FALSE
    /\ retry = IdleRetry
    /\ \E n \in 1..MaxPermits : limit = Semaphore_new(n)
    /\ query = QueryChannel_new
    /\ recv = EventReceiver_new
    /\ dbmutex = NoProc
    /\ stored = Some(UserConfig_default)
    /\ checked = [config |-> DefaultConfig, result |-> "pending"]
    /\ ticker = IdleTicker
    /\ returned = None


\* one timer session driven by its operations
SpecSession == InitSession /\ [][SessionNext]_vars

\* validate() applied to each configuration of ValidateInputs
SpecValidate == InitValidate /\ [][ValidateNext]_vars

\* the configuration sent, stored and loaded again
SpecConfig == InitConfig /\ [][ConfigNext]_vars

\* the container called directly by concurrent clients and readers
SpecContainer == InitContainer /\ [][ContainerNext]_vars

\* the application: commands, store, container and the update loop
SpecState == InitState /\ [][StateNext]_vars

\* the updater started and stopped at will, its loops over the container
SpecUpdater == InitUpdater /\ [][UpdaterNext]_vars

\* SpecUpdater with its scheduling: a live loop is polled again and goes on
\* (its timers fire, a lock it waits for is granted or its timeout fires),
\* and select!, which picks at random among its ready branches, does not
\* pass over the shutdown branch forever; a closure left on the blocking
\* pool runs to its end
SpecUpdaterLive ==
    /\ SpecUpdater
    /\ \A l \in LoopIds : WF_vars(LoopStep(l) \/ LoopPomodoroTimeout(l))
    /\ \A l \in LoopIds : SF_vars(LoopExit(l))
    /\ WF_vars(ClosureEnd)

\* the updater over a service that is counting down
SpecTicking == InitTicking /\ [][UpdaterNext]_vars

\* the task manager called by concurrent callers
SpecTasks == InitTasks /\ [][TasksNext]_vars

\* the timer commands of the application, one at a time
SpecTimer == InitTimer /\ [][TimerNext]_vars

\* callers of create_event_receiver on clones of one manager
SpecReceiver == InitContainer /\ [][ReceiverNext]_vars

\* clients sending queries
SpecQuery == InitContainer /\ [][QueryNext]_vars

\* SpecQuery where a step that can be taken is taken
SpecQueryLive == SpecQuery /\ WF_vars(QueryNext)

\* the task manager with callers that wait for tasks
SpecWait == InitTasks /\ [][WaitNext]_vars

\* tasks spawned with spawn_with_limit on one semaphore, finishing and
\* cancelled at will
SpecLimit == InitLimit /\ [][LimitNext]_vars

\* one spawn_with_retry on a new task manager, its factory failing at will
SpecRetry == InitTasks /\ [][RetryNext]_vars


\* ------------------------------------------------------------------------
\* Claims about the timer session
\* ------------------------------------------------------------------------

\* C1: from a fresh session with cycles_until_long_break = 4, driven only by
\* start() and tick(), the 1st, 2nd and 3rd completed Work phases switch to
\* ShortBreak, the 4th to LongBreak, and every completed break to Work.
C1_PhaseRotation ==
    (/\ ~driven
     /\ session.config.cycles_until_long_break = 4
     /\ lastOp.op = "tick"
     /\ lastOp.completed)
    => /\ (lastOp.from = "Work" /\ lastOp.nth \in 1..3 => lastOp.to = "ShortBreak")
       /\ (lastOp.from = "Work" /\ lastOp.nth = 4 => lastOp.to = "LongBreak")
       /\ (lastOp.from # "Work" => lastOp.to = "Work")

\* C2 as stated: a phase started with remaining = D completes on its D-th
\* running tick.
C2_CompletesOnDthTick ==
    (lastOp.op = "tick" /\ lastOp.completed) => lastOp.ticks = lastOp.full

\* C2 as amended: a running tick() that finds remaining > 0 decrements it by
\* exactly one and completes nothing; the phase is completed by the running
\* tick that finds remaining = 0, which is the (D+1)-th tick of a phase
\* started with remaining = D.
C2_TickCountdown ==
    [][(lastOp'.op = "tick" /\ session.is_running) =>
          IF session.remaining > 0
          THEN /\ session'.remaining = session.remaining - 1
               /\ session'.phase = session.phase
               /\ session'.is_running
               /\ ~lastOp'.completed
          ELSE /\ lastOp'.completed
               /\ lastOp'.ticks = lastOp'.full + 1
               /\ session'.phase = phase_next(session.phase, session'.cycle_count,
                                              session.config.cycles_until_long_break)
               /\ ~session'.is_running]_sessVars

\* C2 witness: a phase of duration D >= 2 has been completed by its (D+1)-th
\* running tick.
C2_Witness ==
    /\ lastOp.op = "tick"
    /\ lastOp.completed
    /\ lastOp.full >= 2
    /\ lastOp.ticks = lastOp.full + 1

\* ------------------------------------------------------------------------
\* Claims about the shared state container
\* ------------------------------------------------------------------------

\* C4: with the event channel closed, every mutating method that applied its
\* mutation reports success to its caller (a failed publish is never returned
\* as an error).
C4_PublishFailureNotReturned ==
    \A p \in Procs : (call[p].pc = "done" /\ call[p].applied) => call[p].ok

\* C5: a read accessor that holds the read guard sees a state in which every
\* mutation is applied entirely or not at all (the state as of the last
\* release of the write lock), and in which the statistics are those
\* recomputed from the task collection.
C5_ReadersSeeWholeMutations ==
    \A r \in Readers :
        obs[r].pc = "read" =>
            /\ state = stable
            /\ state.todo_stats = from_todos(state.todos)
            /\ state.todo_stats.total = Len(state.todos)
            /\ state.todo_stats.total = state.todo_stats.todo
                  + state.todo_stats.in_progress + state.todo_stats.done

\* C5 witness: an accessor has read while a mutating method that changed the
\* tasks was in flight.
C5_Witness ==
    \E r \in Readers :
        /\ obs[r].pc = "done"
        /\ obs[r].concurrent
        /\ \E p \in Procs : call[p].pc = "send" /\ call[p].op = "toggle_todo_status"

\* ------------------------------------------------------------------------
\* Claims about the application and the updater
\* ------------------------------------------------------------------------

\* C3: every call of a mutating method that changed the state has published
\* exactly one event when it ends, a call that changed nothing has published
\* none, and the event is published after the write lock is released;
\* whoever the caller is, a command or the update loop under its timeout.
C3_OneEventPerChange ==
    \A p \in Procs :
        /\ call[p].pc = "done" => call[p].sent = IF call[p].applied THEN 1 ELSE 0
        /\ call[p].pc = "send" => rw.writer # p

\* C6: once the commands have ceased and a cycle that began after that has
\* run to its end with its reload done (the store was read and the list
\* replaced in the container), the container's todos are the store's list, in
\* that cycle and in all later ones.
C6_Convergence ==
    converged => (ceased /\ state.todos = Database_get_all_todos(db.rows))

\* C6 witness: the container has converged on a store that holds a row whose
\* status was rewritten by a command.
C6_Witness ==
    /\ converged
    /\ db.rows # <<>>
    /\ Len(db.rows) < db.created

\* C7: start() on a running updater fails with InvalidState, and at most one
\* update loop is alive at any time.
C7_SingleLoop ==
    /\ (updater.last = "start" /\ updater.was_running) => updater.result = "InvalidState"
    /\ Cardinality(Alive) <= 1

\* C8: a loop that was sent the shutdown signal eventually exits; it exits
\* only from its select!, with no cycle in flight, and having exited it runs
\* no further step: its slot comes alive again only as a new loop spawned by
\* start().
C8_GracefulStop ==
    /\ \A l \in LoopIds :
          (loop[l].signalled /\ loop[l].pc # "dead") ~> (loop[l].pc = "dead")
    /\ [][\A l \in LoopIds :
            /\ (loop[l].pc # "dead" /\ loop'[l].pc = "dead")
                  => (loop[l].pc = "select" /\ loop[l].signalled /\ call[l].pc = "idle")
            /\ (loop[l].pc = "dead" /\ loop'[l].pc # "dead")
                  => (/\ loop'[l].pc = "select"
                      /\ ~loop'[l].signalled
                      /\ updater'.shutdown_tx = Some(l)
                      /\ ~updater.is_running)]_vars

\* C8 witness: a loop that was signalled in the middle of a cycle has exited.
C8_Witness ==
    \E l \in LoopIds : loop[l].pc = "dead" /\ loop[l].signalled /\ loop[l].mid

\* C9: a timer step that times out goes on to the reload, a reload that times
\* out or fails goes on to the end of the cycle; a loop ends only after
\* stop() has signalled it, and after a timeout or a store error it comes
\* back to its select!.
C9_FaultsNotFatal ==
    /\ [][\A l \in LoopIds :
            /\ (loop'[l].fault # loop[l].fault /\ loop'[l].fault = "timer_timeout")
                  => loop'[l].pc = "reload"
            /\ (loop'[l].fault # loop[l].fault
                    /\ loop'[l].fault \in {"reload_timeout", "store_error"})
                  => \/ loop'[l].pc = "settings"
                     \/ loop'[l].pc = "replace" /\ call'[l].pc = "done"
            /\ (loop[l].pc = "replace" /\ call[l].pc = "done")
                  => loop'[l].pc \in {"replace", "settings"}
            /\ (loop[l].pc # "dead" /\ loop'[l].pc = "dead") => loop[l].signalled]_vars
    /\ \A l \in LoopIds :
          (loop[l].fault # "none" /\ loop[l].pc # "dead") ~> (loop[l].pc = "select")

\* C9 witness: two loops are back at their select!, one after a timer step
\* that timed out, the other after a reload that timed out or failed.
C9_Witness ==
    \E l1, l2 \in LoopIds :
        /\ loop[l1].pc = "select" /\ loop[l1].fault = "timer_timeout"
        /\ loop[l2].pc = "select" /\ loop[l2].fault \in {"reload_timeout", "store_error"}
        /\ \E l \in {l1, l2} : ~loop[l].signalled

\* ------------------------------------------------------------------------
\* Claims about the task manager
\* ------------------------------------------------------------------------

\* C10: a spawn that finds its name registered returns InvalidState without
\* spawning anything and leaves the registry and the tasks as they are; and
\* every task that is running is the one registered under its name, so no
\* name ever has two tasks, however the spawns interleave.
C10_NoDuplicateSpawn ==
    /\ [](\A h \in 1..Len(handles) :
            handles[h].state = "running"
                => tasks[handles[h].name] = Some(TaskEntry(h)))
    /\ [][\A c \in Callers :
            (/\ caller[c].pc = "check"
             /\ tasks[caller[c].name] # NoneOpt
             /\ caller'[c] # caller[c])
            => /\ caller'[c].result = "InvalidState"
               /\ caller'[c].pc = "done"
               /\ tasks' = tasks
               /\ handles' = handles]_vars

\* C10 witness: of two racing spawns of one name, one has failed with
\* InvalidState and the task of the other is registered and running.
C10_Witness ==
    \E c \in Callers :
        /\ caller[c].pc = "done"
        /\ caller[c].op = "spawn"
        /\ caller[c].result = "InvalidState"
        /\ caller[c].raced
        /\ tasks[caller[c].name] # NoneOpt
        /\ handles[tasks[caller[c].name][1].handle].state = "running"

\* C11: cancel of a registered name returns true, aborts the task and removes
\* its entry, so that exists(name) is false when it returns; cancel of a name
\* that is not registered returns false and changes nothing; and a spawn that
\* finds its name absent registers a new running task and returns Ok.
C11_Cancel ==
    [][\A c \in Callers :
        /\ (caller[c].op = "cancel" /\ caller[c].pc = "body" /\ caller'[c].pc = "done")
            => IF exists(caller[c].name)
               THEN /\ caller'[c].result = TRUE
                    /\ tasks'[caller[c].name] = NoneOpt
                    /\ handles'[tasks[caller[c].name][1].handle].state # "running"
                    /\ \A n \in TaskNames \ {caller[c].name} : tasks'[n] = tasks[n]
               ELSE /\ caller'[c].result = FALSE
                    /\ tasks' = tasks
                    /\ handles' = handles
        /\ (caller[c].op = "spawn" /\ caller[c].pc = "check" /\ caller'[c].pc # "check"
                /\ ~exists(caller[c].name))
            => caller'[c].pc = "spawn"
        /\ (caller[c].op = "spawn" /\ caller[c].pc = "spawn" /\ caller'[c].pc # "spawn")
            => /\ caller'[c].result = "Ok"
               /\ tasks'[caller[c].name] = Some(TaskEntry(Len(handles) + 1))
               /\ handles'[Len(handles) + 1].state = "running"]_vars

\* C11 witness: a caller whose cancel returned true has spawned the same name
\* again with success, and the task it cancelled is aborted.
C11_Witness ==
    \E c \in Callers :
        /\ caller[c].op = "spawn"
        /\ caller[c].pc = "done"
        /\ caller[c].after_cancel
        /\ caller[c].result = "Ok"
        /\ \E h \in 1..Len(handles) :
              handles[h].name = caller[c].name /\ handles[h].state = "aborted"

\* C12: with max_retries = m >= 1 the factory is invoked at most m times; the
\* task succeeds at the first successful attempt among the first m and
\* otherwise finishes with the error of the last attempt; and before the
\* retry that follows failed attempt k it waits retry_delay * 2^(k-1).
C12_RetryBackoff ==
    retry.max_retries >= 1 =>
        /\ retry.invoked <= retry.max_retries
        /\ retry.pc = "sleep" => retry.factor = Pow2(retry.attempt - 1)
        /\ retry.pc = "done" =>
              /\ handles[tasks[RetryName][1].handle].state = "finished"
              /\ handles[tasks[RetryName][1].handle].result = retry.outcome
              /\ retry.outcome # "Ok" => retry.invoked = retry.max_retries

\* C13: an error that is not retryable ends the task: the factory is not
\* invoked again (the body does not go on to sleep and retry) and that error
\* is the task's result.
C13_NonRetryableEnds ==
    (retry.outcome \in ErrorKinds /\ ~is_retryable(retry.outcome)) =>
        /\ retry.pc = "done"
        /\ handles[tasks[RetryName][1].handle].result = retry.outcome

\* C14: the metadata of a registered task follows the task: its status is
\* Running once the task is launched, and when the task has failed its status
\* is Failed with the error recorded, as list_tasks shows it.
C14_MetadataLifecycle ==
    \A md \in list_tasks :
        /\ handles[md.handle].state = "running" => md.status = "Running"
        /\ (handles[md.handle].state = "finished" /\ handles[md.handle].result # "Ok")
              => (md.status = "Failed" /\ md.error = Some(handles[md.handle].result))

\* C15: under a semaphore of N permits at most N bodies execute at once, and
\* a permit is held by nothing but an executing body: it is back when the
\* body has completed or failed or the cancelled task is dropped, so that the
\* bodies and the free permits always add up to N.
C15_PermitsBound ==
    /\ Cardinality(Bodies) <= limit.permits
    /\ Cardinality(Bodies) + limit.free = limit.permits

\* C15 witness: every permit is taken, a task waits for one, and an earlier
\* body has already given its permit back.
C15_Witness ==
    /\ limit.free = 0
    /\ Cardinality(Bodies) = limit.permits
    /\ \E h \in 1..Len(handles) : handles[h].state = "running" /\ limit.pc[h] = "acquire"
    /\ \E h \in 1..Len(handles) : handles[h].state # "running" /\ limit.pc[h] = "done"

\* C16: a wait with a timeout whose deadline elapses on a registered task
\* that has not finished returns Ok(None), and leaves the task registered and
\* running; a wait without a timeout on a registered task returns only when
\* the task has ended, with Ok or with its error.
C16_Wait ==
    [][\A c \in Callers :
        (caller[c].op = "wait" /\ caller[c].pc = "await" /\ caller'[c].pc = "done")
        => LET h == tasks[caller[c].name][1].handle
           IN /\ (caller[c].timeout /\ handles[h].state = "running")
                    => /\ caller'[c].result = "Ok(None)"
                       /\ tasks'[caller[c].name] = tasks[caller[c].name]
                       /\ handles'[h].state = "running"
              /\ ~caller[c].timeout
                    => /\ handles[h].state = "finished"
                       /\ handles[h].result \in TaskOutcomes]_vars

\* C16 witness: a wait with a timeout has returned Ok(None) on a task still
\* registered and running, while another caller's wait without a timeout on
\* the other task has returned that task's result.
C16_Witness ==
    \E c, d \in Callers :
        /\ caller[c].op = "wait" /\ caller[c].timeout /\ caller[c].pc = "done"
        /\ caller[c].result = "Ok(None)"
        /\ exists(caller[c].name)
        /\ handles[tasks[caller[c].name][1].handle].state = "running"
        /\ caller[d].op = "wait" /\ ~caller[d].timeout /\ caller[d].pc = "done"
        /\ caller[d].result \in {"Ok(Some(Ok))", "Ok(Some(Err))"}

\* C17: cleanup removes the entry of every registered task that has finished
\* and of no other, and returns the number of entries it removed.
C17_Cleanup ==
    [][\A c \in Callers :
        (caller[c].op = "cleanup" /\ caller[c].pc = "body" /\ caller'[c].pc = "done")
        => /\ \A n \in TaskNames :
                 tasks'[n] = IF /\ tasks[n] # NoneOpt
                                /\ handles[tasks[n][1].handle].state # "running"
                             THEN NoneOpt
                             ELSE tasks[n]
           /\ caller'[c].result =
                 Cardinality({n \in TaskNames : tasks[n] # NoneOpt /\ tasks'[n] = NoneOpt})
           /\ handles' = handles]_vars

\* C17 witness: a cleanup has returned 1, the task that had finished is
\* absent and the other one, still running, is registered.
C17_Witness ==
    \E c \in Callers :
        /\ caller[c].op = "cleanup" /\ caller[c].pc = "done" /\ caller[c].result = 1
        /\ \E n, m \in TaskNames :
              /\ ~exists(n)
              /\ \E h \in 1..Len(handles) :
                    handles[h].name = n /\ handles[h].state = "finished"
              /\ exists(m)
              /\ handles[tasks[m][1].handle].state = "running"

\* C18: every query sent with send_query eventually receives a response, of
\* the variant that answers the query.
C18_QueryAnswered ==
    \A c \in QueryClients : \A q \in StateQuery :
        (query.awaiting[c] = Some(q)) ~> (query.response[c] = Some(response_variant(q)))

\* C19: over all callers and all clones of the handle at most one call of
\* create_event_receiver succeeds; a call that finds the receiver gone fails
\* with "already taken" and leaves the channel, and so the receiver handed
\* out first, as it was.
C19_ReceiverOnce ==
    /\ [](recv.made <= 1)
    /\ [](Cardinality({c \in RecvCallers : recv.call[c].result = "Ok"}) <= 1)
    /\ [][\A c \in RecvCallers :
            (recv.call[c].pc = "locked" /\ recv'.call[c].pc = "done" /\ chan # "held")
            => /\ recv'.call[c].result = "AlreadyTaken"
               /\ chan' = chan
               /\ recv'.made = recv.made]_vars

\* C19 witness: one caller holds the receiver, created on one handle, and
\* another caller's attempt on the other handle has failed while the first
\* receiver is still connected.
C19_Witness ==
    \E c, d \in RecvCallers :
        /\ recv.call[c].pc = "done" /\ recv.call[c].result = "Ok"
        /\ recv.call[d].pc = "done" /\ recv.call[d].result = "AlreadyTaken"
        /\ recv.call[c].clone # recv.call[d].clone
        /\ chan = "taken"

\* C20: the event published when a timer command stores the session names
\* the change the command made: start publishes PomodoroStarted, pause
\* PomodoroPaused, reset PomodoroReset and skip PomodoroSkipped.
C20_EventNamesChange ==
    [][(/\ call[Cmd].op = "set_pomodoro_session"
        /\ call[Cmd].pc = "send"
        /\ call'[Cmd].sent = call[Cmd].sent + 1)
       => lastEvent'.kind =
             CASE cmd.op = "start_pomodoro" -> "PomodoroStarted"
               [] cmd.op = "pause_pomodoro" -> "PomodoroPaused"
               [] cmd.op = "reset_pomodoro" -> "PomodoroReset"
               [] cmd.op = "skip_pomodoro_phase" -> "PomodoroSkipped"]_vars

\* C21: the event an update cycle publishes for the outcome of tick() is the
\* matching one: a plain tick is published as the tick event and a completed
\* phase as the phase-completed event, not as a timer start.
C21_TickEventMatches ==
    [][\A l \in LoopIds :
        (loop[l].pc = "pomo_tick" /\ loop'[l].pc # "pomo_tick" /\ chan # "closed")
        => lastEvent' = [kind |-> "PomodoroEvent",
                         data |-> IF session_tick(updater.service).completed
                                  THEN "PhaseCompleted" ELSE "Tick"]]_vars

\* ---- locks of the container and of the store ---------------------------------

\* p holds the container's RwLock or is suspended at one of its acquisitions
\* (`self.state.write().await`, `self.state.read().await`)
at_container(p) ==
    \/ rw.writer = p
    \/ p \in rw.readers
    \/ call[p].pc \notin {"idle", "done"}

\* p holds the Mutex of the store's connection or has an operation of the
\* store in flight that has yet to take it
at_store(p) ==
    \/ dbmutex = p
    \/ p = Cmd /\ cmd.pc \in {"db", "load"}
    \/ p \in LoopIds /\ loop[p].pc = "reload"

\* C22: no process holds the container's lock while it acquires or waits for
\* the lock of the store, nor holds the store's lock while it acquires or
\* waits for the container's: nobody is at both locks at once, so no cycle of
\* waiting runs through the two.
C22_NoNestedLocks ==
    \A p \in {Cmd} \cup LoopIds : ~(at_container(p) /\ at_store(p))

\* a command holds the store's Mutex while an update loop holds the
\* container's write lock
C22_Witness ==
    /\ dbmutex = Cmd
    /\ \E l \in LoopIds : rw.writer = l

\* ---- the session's operations, one by one --------------------------------------

\* C23: cycle_count changes only in a tick() that completes a Work phase, and
\* then by exactly one; a tick() completing a break, skip(), reset(), start(),
\* pause() and update_config() leave it as it is.
C23_CycleCount ==
    [][IF lastOp'.op = "tick" /\ lastOp'.completed /\ lastOp'.from = "Work"
       THEN session'.cycle_count = session.cycle_count + 1
       ELSE session'.cycle_count = session.cycle_count]_vars

\* a tick() has completed the second Work phase of a session that was also
\* paused, reset, skipped or reconfigured
C23_Witness ==
    /\ lastOp.op = "tick" /\ lastOp.completed /\ lastOp.from = "Work"
    /\ session.cycle_count = 2
    /\ driven

\* C24: tick() on a session that is not running reports "not completed" and
\* leaves phase, duration, remaining, is_running, cycle_count and config as
\* they are.
C24_TickWhenStopped ==
    [][(lastOp'.op = "tick" /\ ~session.is_running)
       => (session' = session /\ ~lastOp'.completed /\ lastOp'.ok)]_vars

\* tick() was called on a session paused in the middle of a phase
C24_Witness ==
    /\ lastOp.op = "tick" /\ ~lastOp.completed
    /\ ~session.is_running
    /\ 0 < session.remaining /\ session.remaining < session.duration

\* C25: start() on a running session, pause() on a stopped one and skip() on
\* a running one fail with InvalidState and leave the session unchanged;
\* start() on a stopped session and pause() on a running one succeed and
\* change is_running only.
C25_StartPauseSkip ==
    [][/\ (lastOp'.op = "start" /\ session.is_running)
          => (lastOp'.error = "InvalidState" /\ session' = session)
       /\ (lastOp'.op = "pause" /\ ~session.is_running)
          => (lastOp'.error = "InvalidState" /\ session' = session)
       /\ (lastOp'.op = "skip" /\ session.is_running)
          => (lastOp'.error = "InvalidState" /\ session' = session)
       /\ (lastOp'.op = "start" /\ ~session.is_running)
          => (lastOp'.ok /\ session' = [session EXCEPT !.is_running = TRUE])
       /\ (lastOp'.op = "pause" /\ session.is_running)
          => (lastOp'.ok /\ session' = [session EXCEPT !.is_running = FALSE])]_vars

\* start() was refused on a session running in the middle of a phase
C25_Witness ==
    /\ lastOp.op = "start" /\ lastOp.error = "InvalidState"
    /\ session.is_running
    /\ session.remaining < session.duration

\* C26: remaining <= duration in every state the session reaches from new()
\* by start, pause, reset, skip, tick and update_config.
C26_RemainingWithinDuration ==
    session.remaining <= session.duration

\* update_config was accepted while the session was running in the middle of
\* a phase: the configuration has changed, duration and remaining are those
\* of the configuration before
C26_Witness ==
    /\ lastOp.op = "update_config" /\ lastOp.ok
    /\ session.is_running
    /\ session.remaining < session.duration
    /\ session.duration # get_duration(session.config, session.phase)

\* C27: the configuration held by the timer session satisfies the bounds of
\* validate in every reachable state, whether it was passed to new(), built
\* from the stored user configuration at startup or installed by
\* update_config; cycles_until_long_break is at least 2, so that the
\* remainder of PomodoroPhase::next is never taken by zero.
C27_ConfigWithinBounds ==
    validate(session.config)

\* the windows of the four fields of a timer configuration
within_windows(c) ==
    /\ c.work_duration \in 60..7200
    /\ c.short_break_duration \in 60..1800
    /\ c.long_break_duration \in 300..3600
    /\ c.cycles_until_long_break \in 2..10

\* C28: update_config with a configuration that has a field outside its
\* window fails with Validation and leaves config, duration, remaining and
\* is_running (and the rest of the session) as they were: in every state
\* the session reaches, for every such configuration, and in every step
\* in which update_config fails.
C28_InvalidConfigRejected ==
    /\ [](\A c \in UpdateConfigs :
            ~within_windows(c)
            => session_update_config(session, c) = [s |-> session, ok |-> FALSE])
    /\ [][(lastOp'.op = "update_config" /\ ~lastOp'.ok)
           => (lastOp'.error = "Validation" /\ session' = session)]_vars

\* update_config was refused on a session running in the middle of a phase
\* under a configuration installed before
C28_Witness ==
    /\ lastOp.op = "update_config" /\ lastOp.error = "Validation"
    /\ session.is_running
    /\ session.remaining < session.duration
    /\ session.config \in UpdateConfigs

\* C29: update_config with a valid configuration installs it; on a session
\* that is not running it sets duration and remaining to the configured time
\* of the current phase, on a running session it leaves both as they are;
\* every phase switch (a tick() that completes the phase, a skip()) sets
\* both to the time the configuration of that moment gives the new phase.
C29_ValidConfigApplied ==
    [][/\ (lastOp'.op = "update_config" /\ lastOp'.ok)
          => /\ session'.config \in UpdateConfigs
             /\ within_windows(session'.config)
             /\ session' = IF session.is_running
                           THEN [session EXCEPT !.config = session'.config]
                           ELSE [session EXCEPT
                                   !.config = session'.config,
                                   !.duration = get_duration(session'.config, session.phase),
                                   !.remaining = get_duration(session'.config, session.phase)]
       /\ ((lastOp'.op = "tick" /\ lastOp'.completed) \/ (lastOp'.op = "skip" /\ lastOp'.ok))
          => /\ session'.duration = get_duration(session.config, session'.phase)
             /\ session'.remaining = session'.duration]_vars

\* a phase that ran to its end under the duration it began with, the
\* configuration having been replaced while it ran; the next phase has the
\* duration of the new configuration
C29_Witness ==
    /\ lastOp.op = "tick" /\ lastOp.completed
    /\ session.config \in UpdateConfigs
    /\ lastOp.full # get_duration(session.config, lastOp.from)
    /\ session.duration = get_duration(session.config, session.phase)

\* C30: validate() succeeds exactly when work_duration is in [60, 7200],
\* short_break_duration in [60, 1800], long_break_duration in [300, 3600]
\* and cycles_until_long_break in [2, 10]; with a field outside its window
\* it fails with Validation.
C30_ValidateWindows ==
    checked.result # "pending"
    => /\ checked.result = "Ok" <=> within_windows(checked.config)
       /\ ~within_windows(checked.config) => checked.result = "Validation"

\* validate() has refused a configuration whose long break alone is outside
\* its window, by one second
C30_Witness ==
    /\ checked.result = "Validation"
    /\ checked.config = PomodoroConfig(7200, 60, 299, 2)

\* C31: reset() succeeds in every state; afterwards remaining = duration and
\* the session is not running; phase, duration, cycle_count and config are
\* as before.
C31_Reset ==
    [][lastOp'.op = "reset"
       => /\ lastOp'.ok
          /\ session' = [session EXCEPT !.remaining = session.duration,
                                        !.is_running = FALSE]]_vars

\* reset() was called after ticks of a phase had passed, in a session that
\* has completed a Work phase
C31_Witness ==
    /\ lastOp.op = "reset" /\ lastOp.ok
    /\ lastOp.ticks > 0
    /\ session.cycle_count >= 1
    /\ session.remaining = session.duration
    /\ ~session.is_running

\* ---- the timer commands and the pomodoro-tick task ------------------------------

C34_TodoIdsUnique ==
    \A i, j \in 1..Len(state.todos) :
        state.todos[i].id = state.todos[j].id => i = j

\* C35: when the store write of toggle_todo_status fails, the command
\* returns the error with the todo's status in the container equal to its
\* status in the store
C35_FailedToggleKeepsStatus ==
    [][(/\ cmd.op = "toggle_todo_status" /\ cmd.pc = "db" /\ cmd'.pc = "idle"
        /\ Database_update_todo_result(db, cmd.id, cmd.status) = "Err"
        /\ position(state'.todos, cmd.id) # 0)
       => state'.todos[position(state'.todos, cmd.id)].status
            = status_of_row(db'.rows[row_of(db'.rows, cmd.id)].status)]_vars

\* C36: a caller of cancel, spawn or wait that has reached the lock of the
\* registry while another caller's wait (without a timeout) is pending on a
\* task that is still running is not kept from the lock: it can go on
\* without that task finishing
C36_NotBlockedByWait ==
    \A c, d \in Callers :
        (/\ c # d
         /\ caller[c].pc = "lock"
         /\ caller[d].pc = "await" /\ ~caller[d].timeout
         /\ handles[tasks[caller[d].name][1].handle].state = "running")
        => mutex_free

\* C38: in the PhaseCompleted event of PomodoroService::tick, completed_phase
\* is the session's phase before the tick, next_phase its phase after the
\* tick and cycle_count its count after the tick
C38_PhaseCompletedPayload ==
    [][\A l \in LoopIds :
         (/\ loop[l].pc = "pomo_tick" /\ loop'[l].pc = "reload"
          /\ service_tick(updater.service).event = "PhaseCompleted")
         => LET e == service_tick(updater.service).payload IN
            /\ e.completed_phase = updater.service.phase
            /\ e.next_phase = updater'.service.phase
            /\ e.cycle_count = updater'.service.cycle_count]_vars

\* C39: an update_pomodoro_config that the timer rejects returns the error
\* and leaves the persisted user configuration, the timer's config and the
\* container's user configuration unchanged
C39_RejectedUpdateChangesNothing ==
    [][(lastOp'.op = "update_pomodoro_config" /\ ~lastOp'.ok)
       => /\ stored' = stored
          /\ session'.config = session.config
          /\ state'.user_config = state.user_config]_vars

\* C40: the TodoBulkUpdated event published by bulk_update_todos carries the
\* list of todos that this call installed, also when another writer changes
\* the todos concurrently
C40_BulkEventCarriesInstalled ==
    [][\A p \in Procs :
         (/\ call[p].pc = "send" /\ call[p].op = "bulk_update_todos"
          /\ call'[p].pc = "done" /\ call'[p].sent = call[p].sent + 1)
         => lastEvent'.data = call[p].arg]_vars


============================================================================
